---- MODULE Spec2Model ----
(***************************************************************************)
(* A model of android-logd-logger: the event codec (events.rs), the        *)
(* newline scaled chunk iterator (logging_iterator.rs), the reconnecting   *)
(* logd socket (logd.rs) and the entry points that use them.               *)
(*                                                                         *)
(* Strings are sequences of UTF-8 bytes (0..255), as a Rust &str is.  A    *)
(* byte index idx of the source (0-based) is the boundary between the      *)
(* elements idx and idx+1 of the sequence (1-based).                       *)
(***************************************************************************)
EXTENDS Integers, Sequences, FiniteSets, TLC

VARIABLES
    \* EventValue codec: the value under test and what the two methods returned
    \* (Options: <<>> before the call, <<result>> after it).
    value, encoded, size,
    \* NewlineScaledChunkIterator: the message the iterator was created on, its
    \* fields data and max_byte_length, the item the last next() returned
    \* (<<>> is None), the pieces yielded so far and the number of next() calls.
    msg, data, max_byte_length, item, pieces, ncalls,
    \* The build: "android" (cfg(target_os = "android")) or "other".
    platform,
    \* The lazily initialised statics lib.rs SOCKET (a plain datagram socket)
    \* and pmsg.rs PMSG_DEV: "uninit", "ready", or "poisoned" once the
    \* initialiser panicked.
    SOCKET, PMSG_DEV,
    \* logger.rs: the Configuration behind Logger.configuration's RwLock (with
    \* the number of writes made to it so far), and whether this platform's
    \* std::sync::RwLock holds new readers back while a writer waits, and
    \* whether the lock is poisoned (a thread panicked with its write guard).
    configuration, writer_priority, poisoned,
    \* The log crate's global logger (<<>>: none installed, <<l>>: logger l)
    \* and its global maximum level.
    LOGGER, MAX_LOG_LEVEL_FILTER,
    \* logd.rs SOCKET: the file descriptor held in LogdSocket.socket, the
    \* state of every file descriptor, and the state of the RwLock.
    socket, fds, lock,
    \* Per thread: its position, the call it is in (with its arguments), the
    \* buffer given to LogdSocket::send, the local `socket` of send's
    \* reconnect arm (0: none), what send returned, the chunk iterator and
    \* index of pmsg::log's loop and the frame it is about to write.
    pc, op, buffer, new_socket, send_result, it,
    \* Per thread, for the call in progress: the transport calls made, in
    \* order, with what each returned; the lines written to stdout and stderr;
    \* and what the call returned to its caller ("none" until it does).
    io, console, ret

codecVars == <<value, encoded, size>>
chunkVars == <<msg, data, max_byte_length, item, pieces, ncalls>>
staticVars == <<SOCKET, PMSG_DEV>>
configVars == <<configuration, writer_priority, poisoned>>
sinkVars == <<LOGGER, MAX_LOG_LEVEL_FILTER>>
sockVars == <<socket, fds, lock>>
threadVars == <<pc, op, buffer, new_socket, send_result, it, io, console, ret>>
logdVars == <<platform, staticVars, configVars, sinkVars, sockVars, threadVars>>
vars == <<codecVars, chunkVars, logdVars>>

\* ------------------------------------------------------------------ bounds
\* Characters in a generated message of the chunk iterator.
MaxChars == 4
\* Largest max_byte_length the chunk iterator is generated with.
MaxByteLen == 5
\* Calls of next() on one iterator.
MaxNextCalls == 7
\* Elements of a generated event list.
MaxListLen == 2
\* Threads that call LogdSocket::send concurrently.
NumThreads == 2
\* File descriptors the process may have open for logd sockets.
MaxFds == 2
\* Writes made to the logger's configuration after it was built.
MaxReconfigs == 1
\* Calls that replace the filter.
MaxFilterCalls == 2

\* --------------------------------------------------------------- constants
\* lib.rs: const LOGGER_ENTRY_MAX_LEN: usize = 5 * 1024
LOGGER_ENTRY_MAX_LEN == 5 * 1024
EVENT_TYPE_INT == 0
EVENT_TYPE_LONG == 1
EVENT_TYPE_STRING == 2
EVENT_TYPE_LIST == 3
EVENT_TYPE_FLOAT == 4
\* pmsg.rs
ANDROID_LOG_MAGIC_CHAR == 108
ANDROID_LOG_ENTRY_MAX_PAYLOAD == 4068
ANDROID_LOG_PMSG_SEQUENCE_INCREMENT == 1000
ANDROID_LOG_PMSG_MAX_SEQUENCE == 256000
DUMMY_UID == 0
PMSG_HEADER_LEN == 7
LOG_HEADER_LEN == 11

\* ------------------------------------------------------------------ helpers
Max(S) == CHOOSE x \in S : \A y \in S : y <= x

Pow256(k) == IF k = 0 THEN 1
             ELSE IF k = 1 THEN 256
             ELSE IF k = 2 THEN 65536
             ELSE 16777216

\* BufMut::put_u8 / put_u16_le / put_u32_le / put_i32_le: the low `width`
\* bytes (width <= 4) of n, least significant first; \div rounds down, so a
\* negative n gives its two's complement.  Every integer of the model lies in
\* -2^31 .. 2^31 - 1, so `n as u32` followed by put_u32_le is PutLe(n, 4).
PutLe(n, width) == [i \in 1..width |-> (n \div Pow256(i - 1)) % 256]

\* `x as u8`, `x as u16`: truncation.
AsU8(n) == n % 256
AsU16(n) == n % 65536

RECURSIVE Flatten(_)
\* The concatenation of a sequence of sequences (by halves, to keep the
\* evaluation shallow on long sequences).
Flatten(ss) ==
    IF Len(ss) = 0 THEN <<>>
    ELSE IF Len(ss) = 1 THEN ss[1]
    ELSE LET h == Len(ss) \div 2
         IN  Flatten(SubSeq(ss, 1, h)) \o Flatten(SubSeq(ss, h + 1, Len(ss)))

RECURSIVE SumSeq(_)
\* The sum of a sequence of numbers.
SumSeq(ns) ==
    IF Len(ns) = 0 THEN 0
    ELSE IF Len(ns) = 1 THEN ns[1]
    ELSE LET h == Len(ns) \div 2
         IN  SumSeq(SubSeq(ns, 1, h)) + SumSeq(SubSeq(ns, h + 1, Len(ns)))

\* char::encode_utf8 (the standard encoding a &str holds).
Utf8(cp) ==
    IF cp < 128 THEN <<cp>>
    ELSE IF cp < 2048 THEN <<192 + (cp \div 64), 128 + (cp % 64)>>
    ELSE IF cp < 65536
         THEN <<224 + (cp \div 4096), 128 + ((cp \div 64) % 64), 128 + (cp % 64)>>
         ELSE <<240 + (cp \div 262144), 128 + ((cp \div 4096) % 64),
                128 + ((cp \div 64) % 64), 128 + (cp % 64)>>

\* The bytes of the string with the code points cps.
Str(cps) == Flatten([i \in 1..Len(cps) |-> Utf8(cps[i])])

\* n copies of the byte b.
Repeat(b, n) == [i \in 1..n |-> b]

\* ---------------------------------------------------------- EventValue codec
\* enum EventValue { Void, Int(i32), Long(i64), Float(f32), String(String),
\* List(Vec<EventValue>) }.  A Float is held as its 32 bit pattern and a Long
\* as its two 32 bit halves (hi, lo), each a signed 32 bit pattern.
EvVoid == [type |-> "Void"]
EvInt(n) == [type |-> "Int", num |-> n]
EvLong(hi, lo) == [type |-> "Long", hi |-> hi, lo |-> lo]
EvFloat(bits) == [type |-> "Float", bits |-> bits]
EvString(s) == [type |-> "String", string |-> s]
EvList(vs) == [type |-> "List", values |-> vs]

RECURSIVE serialized_size(_)
\* serialized_size with a Long counted like an Int.
serialized_size_long4(v) ==
    CASE v.type = "Void" -> 0
      [] v.type \in {"Int", "Float", "Long"} -> 1 + 4
      [] v.type = "String" -> 1 + 4 + Len(v.string)
      [] v.type = "List" ->
            1 + 1 + SumSeq([i \in 1..Len(v.values) |-> serialized_size(v.values[i])])

serialized_size(v) ==
    CASE v.type = "Void" -> 0
      [] v.type \in {"Int", "Float"} -> 1 + 4
      [] v.type = "Long" -> 1 + 8
      [] v.type = "String" -> 1 + 4 + Len(v.string)
      [] v.type = "List" ->
            1 + 1 + SumSeq([i \in 1..Len(v.values) |-> serialized_size(v.values[i])])

RECURSIVE as_bytes(_)
as_bytes(v) ==
    CASE v.type = "Void" -> <<>>
      [] v.type = "Int" -> <<EVENT_TYPE_INT>> \o PutLe(v.num, 4)
      [] v.type = "Long" -> <<EVENT_TYPE_LONG>> \o PutLe(v.lo, 4) \o PutLe(v.hi, 4)
      [] v.type = "Float" -> <<EVENT_TYPE_FLOAT>> \o PutLe(v.bits, 4)
      [] v.type = "String" ->
            <<EVENT_TYPE_STRING>> \o PutLe(Len(v.string), 4) \o v.string
      [] v.type = "List" ->
            <<EVENT_TYPE_LIST>> \o <<AsU8(Len(v.values))>>
                \o Flatten([i \in 1..Len(v.values) |-> as_bytes(v.values[i])])

\* ------------------------------------------------- NewlineScaledChunkIterator
\* str::is_char_boundary: index 0 and the length are boundaries, an index past
\* the length is none, and inside the string the byte at idx must not be a
\* continuation byte 0b10xxxxxx ((b as i8) >= -0x40).
is_char_boundary(s, idx) ==
    IF idx = 0 THEN TRUE
    ELSE IF idx >= Len(s) THEN idx = Len(s)
    ELSE s[idx + 1] < 128 \/ s[idx + 1] >= 192

\* find_char_boundary_before_idx without the search: the index as given.
find_char_boundary_unadjusted(s, idx) == idx

RECURSIVE find_char_boundary_before_idx(_, _)
find_char_boundary_before_idx(s, idx) ==
    IF is_char_boundary(s, idx) THEN idx
    ELSE IF idx - 1 = 0 THEN idx - 1
    ELSE find_char_boundary_before_idx(s, idx - 1)

\* str::rfind('\n'): the byte index of the last newline, as an Option
\* (<<>> is None, <<i>> is Some(i)).
rfind_newline(s) ==
    LET hits == {i \in 1..Len(s) : s[i] = 10}
    IN  IF hits = {} THEN <<>> ELSE <<Max(hits) - 1>>

\* split_index splitting before the newline instead of after it.
split_index_before_newline(s, max) ==
    LET split_idx == find_char_boundary_before_idx(s, max)
        found == rfind_newline(SubSeq(s, 1, split_idx))
    IN  IF found # <<>> THEN found[1] ELSE split_idx

\* split_index searching the newline in the whole remainder instead of in its
\* first split_idx bytes.
split_index_rfind_whole(s, max) ==
    LET split_idx == find_char_boundary_before_idx(s, max)
        found == rfind_newline(s)
    IN  IF found # <<>> THEN found[1] + 1 ELSE split_idx

\* The split index of the `_length_above_limit` arm of next().
split_index(s, max) ==
    LET split_idx == find_char_boundary_before_idx(s, max)
        found == rfind_newline(SubSeq(s, 1, split_idx))
    IN  IF found # <<>> THEN found[1] + 1 ELSE split_idx

\* chunk_next with a remainder that skips the byte after the split.
chunk_next_skip_byte(s, max) ==
    IF Len(s) = 0 THEN [item |-> <<>>, data |-> s]
    ELSE IF Len(s) < max THEN [item |-> <<s>>, data |-> <<>>]
    ELSE LET split_idx == split_index(s, max)
         IN  [item |-> <<SubSeq(s, 1, split_idx)>>,
              data |-> SubSeq(s, split_idx + 2, Len(s))]

\* NewlineScaledChunkIterator::next on the remainder s: the item returned (an
\* Option: <<>> is None, <<piece>> is Some(piece)) and the new remainder.
chunk_next(s, max) ==
    IF Len(s) = 0 THEN [item |-> <<>>, data |-> s]
    ELSE IF Len(s) < max THEN [item |-> <<s>>, data |-> <<>>]
    ELSE LET split_idx == split_index(s, max)
         IN  [item |-> <<SubSeq(s, 1, split_idx)>>,
              data |-> SubSeq(s, split_idx + 1, Len(s))]

\* ------------------------------------------------------------ wire frames
\* enum Buffer and impl From<Buffer> for u8.
BufferMain == [kind |-> "Main"]
BufferEvents == [kind |-> "Events"]
BufferStats == [kind |-> "Stats"]
BufferCustom(id) == [kind |-> "Custom", id |-> id]
buffer_u8(b) ==
    CASE b.kind = "Main" -> 0
      [] b.kind = "Radio" -> 1
      [] b.kind = "Events" -> 2
      [] b.kind = "System" -> 3
      [] b.kind = "Crash" -> 4
      [] b.kind = "Stats" -> 5
      [] b.kind = "Security" -> 6
      [] b.kind = "Custom" -> b.id

\* enum Priority, #[repr(u8)].
PriorityVerbose == 2
PriorityDebug == 3
PriorityInfo == 4
PriorityWarn == 5
PriorityError == 6

\* A SystemTime is held as whether it lies before UNIX_EPOCH and its distance
\* from it: whole seconds as two 32 bit halves (secs = secs_hi * 2^32 +
\* secs_lo, each half a 32 bit pattern) and the nanoseconds below a second.
SystemTime(before, hi, lo, nanos) ==
    [before_epoch |-> before, secs_hi |-> hi, secs_lo |-> lo, nanos |-> nanos]

\* SystemTime::duration_since(UNIX_EPOCH): Err for a time before the epoch.
duration_since_epoch(time) ==
    IF time.before_epoch THEN [ok |-> FALSE]
    ELSE [ok |-> TRUE, secs_hi |-> time.secs_hi, secs_lo |-> time.secs_lo,
          nanos |-> time.nanos]

\* thread::id(): the id of the OS thread that runs thread t of the model; a
\* gettid() value may exceed 16 bits.
thread_id(t) == 70000 + t

\* The 11 bytes every logd frame starts with: buffer id, thread id as u16,
\* timestamp.as_secs() as u32 (the low half) and subsec_nanos().
logd_header(buffer_id, tid, d) ==
    <<buffer_u8(buffer_id)>> \o PutLe(AsU16(tid), 2) \o PutLe(d.secs_lo, 4)
        \o PutLe(d.nanos, 4)

\* The datagram of a record with no terminator after the tag.
log_frame_unterminated_tag(t, record, d) ==
    logd_header(record.buffer_id, thread_id(t), d) \o <<record.priority>>
        \o record.tag \o record.message \o <<0>>

\* logd::log: the datagram of a record, given its timestamp as a duration.
log_frame(t, record, d) ==
    logd_header(record.buffer_id, thread_id(t), d) \o <<record.priority>>
        \o record.tag \o <<0>> \o record.message \o <<0>>

\* logd::write_event: the datagram of an event.
event_frame(t, log_buffer, event, d) ==
    logd_header(log_buffer, thread_id(t), d) \o PutLe(event.tag, 4)
        \o as_bytes(event.value)

\* write_event_buffer's size check with >= for >.
event_too_large_ge(v) ==
    serialized_size(v) >= LOGGER_ENTRY_MAX_LEN - 1 - 2 - 4 - 4 - 4

\* write_event_buffer: the size check.
event_too_large(v) ==
    serialized_size(v) > LOGGER_ENTRY_MAX_LEN - 1 - 2 - 4 - 4 - 4

\* pmsg.rs write_pmsg_header, write_log_header and write_payload.
write_pmsg_header(packet_len, uid, pid) ==
    <<ANDROID_LOG_MAGIC_CHAR>> \o PutLe(packet_len, 2) \o PutLe(uid, 2) \o PutLe(pid, 2)
\* write_log_header with a zero where the nanoseconds go.
write_log_header_sequence(buffer_id, tid, timestamp_secs, timestamp_subsec_nanos) ==
    <<buffer_u8(buffer_id)>> \o PutLe(tid, 2) \o PutLe(timestamp_secs, 4) \o PutLe(0, 4)
write_log_header(buffer_id, tid, timestamp_secs, timestamp_subsec_nanos) ==
    <<buffer_u8(buffer_id)>> \o PutLe(tid, 2) \o PutLe(timestamp_secs, 4)
        \o PutLe(timestamp_subsec_nanos, 4)
write_payload(priority, tag, msg_part) ==
    <<priority>> \o tag \o <<0>> \o msg_part \o <<0>>

\* log_pmsg_packet: payload_len (`as u16`) and the frame.  The u16 sum
\* PMSG_HEADER_LEN + LOG_HEADER_LEN + payload_len wraps in a release build.
pmsg_payload_len(record, msg_part) ==
    AsU16(1 + Len(record.tag) + 1 + Len(msg_part) + 1)
\* The u16 addition overflows: a panic with overflow checks (a debug build),
\* a wrapped sum without them.
packet_len_overflows(record, msg_part) ==
    PMSG_HEADER_LEN + LOG_HEADER_LEN + pmsg_payload_len(record, msg_part) > 65535
pmsg_packet_len(record, msg_part) ==
    AsU16(PMSG_HEADER_LEN + LOG_HEADER_LEN + pmsg_payload_len(record, msg_part))
\* The frame with nothing where the nanoseconds go.
pmsg_frame_sequence(record, msg_part, d) ==
    write_pmsg_header(pmsg_packet_len(record, msg_part), DUMMY_UID, record.pid)
        \o write_log_header(record.buffer_id, record.thread_id, d.secs_lo, 0)
        \o write_payload(record.priority, record.tag, msg_part)
pmsg_frame(record, msg_part, d) ==
    write_pmsg_header(pmsg_packet_len(record, msg_part), DUMMY_UID, record.pid)
        \o write_log_header(record.buffer_id, record.thread_id, d.secs_lo, d.nanos)
        \o write_payload(record.priority, record.tag, msg_part)

\* ----------------------------------------------------------- LogdSocket::send
Threads == 1..NumThreads
FdSet == 1..MaxFds
ClosedFd == [open |-> FALSE, connected |-> FALSE, nonblocking |-> FALSE]

\* What UnixDatagram::send may return on file descriptor fd: a socket that
\* was never connected has no peer; on a connected one the daemon may take
\* the datagram, have its receive buffer full, or be gone.
SendOutcomes(fd) ==
    IF fds[fd].connected THEN {"Ok", "WouldBlock", "ConnectionRefused"}
    ELSE {"NotConnected"}
\* What UnixDatagram::unbound, connect and set_nonblocking may return.
UnboundOutcomes == IF \E fd \in FdSet : ~fds[fd].open THEN {"Ok", "TooManyFiles"}
                   ELSE {"TooManyFiles"}
ConnectOutcomes == {"Ok", "NotFound"}
SetNonblockingOutcomes == {"Ok", "BadDescriptor"}

\* The match of send on the first attempt's result with the WouldBlock arm
\* missing.
first_send_arm_no_discard(res) ==
    IF res = "Ok" THEN "return" ELSE "reconnect"

\* The match of send on the first attempt's result: Ok and WouldBlock fall
\* through to Ok(()), every other error takes the reconnect arm.
first_send_arm(res) ==
    CASE res = "Ok" -> "return"
      [] res = "WouldBlock" -> "return"
      [] OTHER -> "reconnect"

\* The retry with its result ignored: the new socket is installed whatever
\* the send on it returned.
retry_result_unchecked(res) == "Ok"

\* The retry's result with a WouldBlock of the retry discarded like one of
\* the first attempt.
retry_result_discard(res) == IF res = "WouldBlock" THEN "Ok" ELSE res

\* `socket.send(buffer)?` of the reconnect arm: what the retry's result makes
\* of send's own result.
retry_result(res) == res

\* logd::log (and logd::write_event) after SOCKET.send with `.expect` for
\* the `if let Err`: a panic on an error.
after_send_expect(res) ==
    IF res = "Ok" THEN [pc |-> "returned", console |-> <<>>]
    ELSE [pc |-> "panicked", console |-> <<>>]

\* logd::log and logd::write_event after SOCKET.send: an error is written to
\* stderr and the function returns.
after_send(res) ==
    [pc |-> "returned", console |-> IF res = "Ok" THEN <<>> ELSE <<"stderr">>]

\* log_pmsg_packet after write_all with the error unwrapped.
after_write_all_unwrap(res) ==
    IF res = "Ok" THEN [pc |-> "pmsg_next", console |-> <<>>]
    ELSE [pc |-> "panicked", console |-> <<>>]

\* log_pmsg_packet after write_all: an error is written to stderr.
after_write_all(res) ==
    [pc |-> "pmsg_next", console |-> IF res = "Ok" THEN <<>> ELSE <<"stderr">>]

\* ------------------------------------------------------------- input sets
\* The strings of at most n code points of the alphabet A, as UTF-8.
StringsOver(A, n) == {Str(cps) : cps \in UNION {[1..k -> A] : k \in 0..n}}

\* 'a', newline, e-acute (2 bytes), U+548C (3 bytes), U+1F600 (4 bytes).
ChunkAlphabet == {97, 10, 233, 21644, 128512}

\* "abc", "line1\nline2\nline3" and "World <U+548C> is" (logging_iterator.rs
\* test_find_char_boundary).
StrAbc == <<97, 98, 99>>
StrLines == <<108, 105, 110, 101, 49, 10, 108, 105, 110, 101, 50, 10,
              108, 105, 110, 101, 51>>
StrWorld == <<87, 111, 114, 108, 100, 32>> \o Utf8(21644) \o <<32, 105, 115>>

ChunkInputs ==
    (StringsOver(ChunkAlphabet, MaxChars) \X (1..MaxByteLen))
        \cup {<<StrAbc, 10>>, <<StrLines, 7>>, <<StrWorld, 7>>}

\* "test" and "one".
StrTest == <<116, 101, 115, 116>>
StrOne == <<111, 110, 101>>

EventLeaves ==
    {EvVoid, EvInt(0), EvInt(-1), EvLong(0, 1), EvLong(-1, -1), EvFloat(1065353216),
     EvString(<<>>), EvString(StrTest), EvString(Utf8(21644))}
SeqsUpTo(S, n) == UNION {[1..k -> S] : k \in 0..n}
EventLists1 == {EvList(vs) : vs \in SeqsUpTo(EventLeaves, MaxListLen)}
EventLists2 == {EvList(<<l>>) : l \in EventLists1}
                  \cup {EvList(<<x, l>>) : x \in EventLeaves, l \in EventLists1}
EventLists3 == {EvList(<<l, EvInt(7)>>) : l \in EventLists2}
\* Values at the size limit of write_event_buffer, and lists at the 255
\* element cap of the one byte count.
EventBig ==
    {EvString(Repeat(97, 5099)), EvString(Repeat(97, 5100)), EvString(Repeat(97, 5101)),
     EvList([i \in 1..255 |-> EvInt(i)]), EvList([i \in 1..256 |-> EvInt(i)]),
     EvList([i \in 1..257 |-> EvVoid])}
CodecValues == EventLeaves \cup EventLists1 \cup EventLists2 \cup EventLists3 \cup EventBig

\* Values write_event_buffer is called with: "test", values of serialized
\* size 5104, 5105 and 5106, a mixed list and a list of 256 elements.
ApiEventValues ==
    {EvString(StrTest), EvString(Repeat(97, 5099)), EvString(Repeat(97, 5100)),
     EvString(Repeat(97, 5101)),
     EvList(<<EvInt(1), EvString(StrOne), EvFloat(1123477914)>>),
     EvList([i \in 1..256 |-> EvInt(i)])}

\* Wall clock times: after the epoch, after it by more than 2^32 seconds, and
\* before it.
Times ==
    {SystemTime(FALSE, 0, 1700000000, 123456789), SystemTime(FALSE, 1, 5, 999999999),
     SystemTime(TRUE, 0, 1, 0)}

Events == [timestamp : Times, tag : {1}, value : ApiEventValues]
EventBuffers == {BufferEvents, BufferStats}

\* A message of two chunks: 4067 bytes and a newline, then "test".
LongMessage == Repeat(97, 4067) \o <<10>> \o StrTest
Messages == {<<>>, StrTest, StrLines, LongMessage}

\* The records thread t passes to logd::log and pmsg::log.
Records(t) ==
    {[timestamp |-> ts, pid |-> 4242, thread_id |-> AsU16(thread_id(t)),
      buffer_id |-> BufferMain, tag |-> StrTest, priority |-> PriorityInfo,
      message |-> m] : ts \in Times, m \in Messages}
    \cup
    {[timestamp |-> ts, pid |-> 4242, thread_id |-> AsU16(thread_id(t)),
      buffer_id |-> BufferCustom(200), tag |-> <<>>, priority |-> PriorityError,
      message |-> StrOne] : ts \in Times}

\* The records pmsg::log is called with: those, and one whose tag makes
\* the payload 65522 bytes long and one whose tag alone is longer than a u16
\* counts.
PmsgRecords(t) ==
    Records(t) \cup
    {[timestamp |-> SystemTime(FALSE, 0, 1700000000, 123456789), pid |-> 4242,
      thread_id |-> AsU16(thread_id(t)), buffer_id |-> BufferMain,
      tag |-> Repeat(97, n), priority |-> PriorityInfo, message |-> StrTest] :
        n \in {65535 - 20, 65535 + 5}}

\* The buffer thread t calls LogdSocket::send with directly: one byte that
\* tells the threads' datagrams apart.
SendBuffers(t) == {<<t>>}

\* ------------------------------------------------------------ idle subsystems
NoOp == [fn |-> "none"]
NoIter == [data |-> <<>>, idx |-> 0]
FreeLock == [mode |-> "free", owner |-> 0]

ThreadsIdle ==
    /\ pc = [t \in Threads |-> "idle"]
    /\ op = [t \in Threads |-> NoOp]
    /\ buffer = [t \in Threads |-> <<>>]
    /\ new_socket = [t \in Threads |-> 0]
    /\ send_result = [t \in Threads |-> "none"]
    /\ it = [t \in Threads |-> NoIter]
    /\ io = [t \in Threads |-> <<>>]
    /\ console = [t \in Threads |-> <<>>]
    /\ ret = [t \in Threads |-> "none"]

\* LogdSocket::connect: file descriptor 1 is the socket, non-blocking; a
\* failure to connect it is ignored, so it is connected or not.
SocketConnected(c) ==
    /\ socket = 1
    /\ fds = [fd \in FdSet |->
                IF fd = 1 THEN [open |-> TRUE, connected |-> c, nonblocking |-> TRUE]
                ELSE ClosedFd]
    /\ lock = FreeLock

StaticsUninit == SOCKET = "uninit" /\ PMSG_DEV = "uninit"

\* enum TagMode.
TagTarget == [mode |-> "Target"]
TagTargetStrip == [mode |-> "TargetStrip"]
TagCustom(tag) == [mode |-> "Custom", tag |-> tag]

\* env_logger's filter::Builder: filter_level(level).build() and
\* filter_module(module, level).build(), as the directives of the Filter built
\* (name is an Option: <<>> is None).
filter_level(level) == <<[name |-> <<>>, level |-> level]>>
filter_module(module, level) == <<[name |-> <<module>>, level |-> level]>>

\* struct LogConfiguration; version counts the writes made to it.
Configuration(filter, tag, prepend_module, pstore, buffer_id) ==
    [filter |-> filter, tag |-> tag, prepend_module |-> prepend_module,
     pstore |-> pstore, buffer_id |-> buffer_id, version |-> 0]

\* No logger built: the configuration is the default one and nothing is
\* installed as the log crate's logger (its maximum level is Off).
ConfigIdle ==
    /\ configuration = Configuration(filter_level("Info"), TagTarget, FALSE, FALSE, BufferMain)
    /\ writer_priority = TRUE
    /\ poisoned = FALSE
SinkIdle == LOGGER = <<>> /\ MAX_LOG_LEVEL_FILTER = "Off"

LogdIdle ==
    /\ platform = "android" /\ StaticsUninit /\ SocketConnected(TRUE) /\ ThreadsIdle
    /\ ConfigIdle /\ SinkIdle

CodecIdle == value = EvVoid /\ encoded = <<>> /\ size = <<>>
ChunkIdle == /\ msg = <<>> /\ data = <<>> /\ max_byte_length = 1
             /\ item = <<>> /\ pieces = <<>> /\ ncalls = 0

\* --------------------------------------------------- SpecCodec: the codec
InitCodec == /\ value \in CodecValues
             /\ encoded = <<>> /\ size = <<>>
             /\ ChunkIdle /\ LogdIdle

\* value.as_bytes()
AsBytes == /\ encoded = <<>>
           /\ encoded' = <<as_bytes(value)>>
           /\ UNCHANGED <<value, size, chunkVars, logdVars>>

\* value.serialized_size()
SerializedSize == /\ size = <<>>
                  /\ size' = <<serialized_size(value)>>
                  /\ UNCHANGED <<value, encoded, chunkVars, logdVars>>

NextCodec == AsBytes \/ SerializedSize
SpecCodec == InitCodec /\ [][NextCodec]_vars

\* ------------------------------------------- SpecChunk: the chunk iterator
\* NewlineScaledChunkIterator::new(msg, max_byte_length)
InitChunk == /\ \E in \in ChunkInputs :
                  msg = in[1] /\ data = in[1] /\ max_byte_length = in[2]
             /\ item = <<>> /\ pieces = <<>> /\ ncalls = 0
             /\ CodecIdle /\ LogdIdle

\* One call of next().
IterNext == /\ ncalls < MaxNextCalls
            /\ LET r == chunk_next(data, max_byte_length)
               IN  /\ item' = r.item
                   /\ data' = r.data
                   /\ pieces' = IF r.item = <<>> THEN pieces ELSE Append(pieces, r.item[1])
            /\ ncalls' = ncalls + 1
            /\ UNCHANGED <<msg, max_byte_length, codecVars, logdVars>>

NextChunk == IterNext
SpecChunk == InitChunk /\ [][NextChunk]_vars

\* ------------------------------------------------ LogdSocket::send, by step
\* Thread t enters a call: o is the call with its arguments, buf the buffer it
\* is about to hand to the transport and at the position the thread is left at.
Enter(t, o, buf, at, out, result) ==
    /\ pc[t] = "idle"
    /\ pc' = [pc EXCEPT ![t] = at]
    /\ op' = [op EXCEPT ![t] = o]
    /\ buffer' = [buffer EXCEPT ![t] = buf]
    /\ new_socket' = [new_socket EXCEPT ![t] = 0]
    /\ send_result' = [send_result EXCEPT ![t] = "none"]
    /\ io' = [io EXCEPT ![t] = <<>>]
    /\ console' = [console EXCEPT ![t] = out]
    /\ ret' = [ret EXCEPT ![t] = result]

\* The caller has the result of its call and goes on to its next one: the
\* call's frame, with what it held, is gone.
Resume(t) ==
    /\ pc[t] = "returned"
    /\ pc' = [pc EXCEPT ![t] = "idle"]
    /\ op' = [op EXCEPT ![t] = NoOp]
    /\ buffer' = [buffer EXCEPT ![t] = <<>>]
    /\ send_result' = [send_result EXCEPT ![t] = "none"]
    /\ it' = [it EXCEPT ![t] = NoIter]
    /\ io' = [io EXCEPT ![t] = <<>>]
    /\ console' = [console EXCEPT ![t] = <<>>]
    /\ ret' = [ret EXCEPT ![t] = "none"]
    /\ UNCHANGED <<platform, configVars, sinkVars, staticVars, sockVars, new_socket, codecVars, chunkVars>>

IoCall(name, fd, buf, res) == [call |-> name, fd |-> fd, buf |-> buf, res |-> res]

\* send leaving with the guard kept: the lock stays as it is.
SendLeavesLocked(t, res) ==
    /\ UNCHANGED lock
    /\ send_result' = [send_result EXCEPT ![t] = res]
    /\ pc' = [pc EXCEPT ![t] = "send_ret"]

\* send leaves with result res: the guard is dropped and the lock is free.
SendLeaves(t, res) ==
    /\ lock' = FreeLock
    /\ send_result' = [send_result EXCEPT ![t] = res]
    /\ pc' = [pc EXCEPT ![t] = "send_ret"]

\* `let lock = self.socket.upgradable_read()`: granted when no other thread
\* holds the upgradable or the exclusive lock.
SendLock(t) ==
    /\ pc[t] = "send_lock"
    /\ lock.mode = "free"
    /\ lock' = [mode |-> "upgradable", owner |-> t]
    /\ pc' = [pc EXCEPT ![t] = "send_first"]
    /\ UNCHANGED <<platform, configVars, sinkVars, staticVars, socket, fds, op, buffer, new_socket,
                   send_result, it, io, console, ret, codecVars, chunkVars>>

\* `match lock.send(buffer)`: the first attempt, on the shared socket.
SendFirst(t) ==
    /\ pc[t] = "send_first"
    /\ \E res \in SendOutcomes(socket) :
         /\ io' = [io EXCEPT ![t] = Append(@, IoCall("send", socket, buffer[t], res))]
         /\ IF first_send_arm(res) = "return"
            THEN SendLeaves(t, "Ok")
            ELSE /\ pc' = [pc EXCEPT ![t] = "unbound"]
                 /\ UNCHANGED <<lock, send_result>>
    /\ UNCHANGED <<platform, configVars, sinkVars, staticVars, socket, fds, op, buffer, new_socket, it,
                   console, ret, codecVars, chunkVars>>

\* `let socket = UnixDatagram::unbound()?`
SendUnbound(t) ==
    /\ pc[t] = "unbound"
    /\ \E res \in UnboundOutcomes :
         IF res = "Ok"
         THEN LET fd == CHOOSE f \in FdSet :
                          ~fds[f].open /\ \A g \in FdSet : ~fds[g].open => f <= g
              IN  /\ io' = [io EXCEPT ![t] = Append(@, IoCall("unbound", fd, <<>>, res))]
                  /\ fds' = [fds EXCEPT ![fd] = [open |-> TRUE, connected |-> FALSE,
                                                nonblocking |-> FALSE]]
                  /\ new_socket' = [new_socket EXCEPT ![t] = fd]
                  /\ pc' = [pc EXCEPT ![t] = "upgrade"]
                  /\ UNCHANGED <<lock, send_result>>
         ELSE /\ io' = [io EXCEPT ![t] = Append(@, IoCall("unbound", 0, <<>>, res))]
              /\ SendLeaves(t, res)
              /\ UNCHANGED <<fds, new_socket>>
    /\ UNCHANGED <<platform, configVars, sinkVars, staticVars, socket, op, buffer, it, console, ret,
                   codecVars, chunkVars>>

\* `let mut lock = RwLockUpgradableReadGuard::upgrade(lock)`: granted once no
\* shared reader is left; every user of this lock takes it upgradable.
SendUpgrade(t) ==
    /\ pc[t] = "upgrade"
    /\ lock = [mode |-> "upgradable", owner |-> t]
    /\ lock' = [mode |-> "exclusive", owner |-> t]
    /\ pc' = [pc EXCEPT ![t] = "connect"]
    /\ UNCHANGED <<platform, configVars, sinkVars, staticVars, socket, fds, op, buffer, new_socket,
                   send_result, it, io, console, ret, codecVars, chunkVars>>

\* The new socket is dropped on an early return: its descriptor is closed.
DropNewSocket(t) ==
    /\ fds' = [fds EXCEPT ![new_socket[t]] = ClosedFd]
    /\ new_socket' = [new_socket EXCEPT ![t] = 0]

\* `socket.connect(LOGDW)?`
SendConnect(t) ==
    /\ pc[t] = "connect"
    /\ \E res \in ConnectOutcomes :
         /\ io' = [io EXCEPT ![t] = Append(@, IoCall("connect", new_socket[t], <<>>, res))]
         /\ IF res = "Ok"
            THEN /\ fds' = [fds EXCEPT ![new_socket[t]].connected = TRUE]
                 /\ pc' = [pc EXCEPT ![t] = "set_nonblocking"]
                 /\ UNCHANGED <<lock, send_result, new_socket>>
            ELSE DropNewSocket(t) /\ SendLeaves(t, res)
    /\ UNCHANGED <<platform, configVars, sinkVars, staticVars, socket, op, buffer, it, console, ret,
                   codecVars, chunkVars>>

\* `socket.set_nonblocking(true)?`
SendSetNonblocking(t) ==
    /\ pc[t] = "set_nonblocking"
    /\ \E res \in SetNonblockingOutcomes :
         /\ io' = [io EXCEPT ![t] =
                     Append(@, IoCall("set_nonblocking", new_socket[t], <<>>, res))]
         /\ IF res = "Ok"
            THEN /\ fds' = [fds EXCEPT ![new_socket[t]].nonblocking = TRUE]
                 /\ pc' = [pc EXCEPT ![t] = "send_retry"]
                 /\ UNCHANGED <<lock, send_result, new_socket>>
            ELSE DropNewSocket(t) /\ SendLeaves(t, res)
    /\ UNCHANGED <<platform, configVars, sinkVars, staticVars, socket, op, buffer, it, console, ret,
                   codecVars, chunkVars>>

\* `socket.send(buffer)?; *lock = socket;`: the retry on the new socket; on
\* success the new socket replaces the shared one, which is dropped.
SendRetry(t) ==
    /\ pc[t] = "send_retry"
    /\ \E res \in SendOutcomes(new_socket[t]) :
         /\ io' = [io EXCEPT ![t] =
                     Append(@, IoCall("send", new_socket[t], buffer[t], res))]
         /\ IF retry_result(res) = "Ok"
            THEN /\ fds' = [fds EXCEPT ![socket] = ClosedFd]
                 /\ socket' = new_socket[t]
                 /\ new_socket' = [new_socket EXCEPT ![t] = 0]
                 /\ SendLeaves(t, "Ok")
            ELSE /\ DropNewSocket(t)
                 /\ SendLeaves(t, retry_result(res))
                 /\ UNCHANGED socket
    /\ UNCHANGED <<platform, configVars, sinkVars, staticVars, op, buffer, it, console, ret, codecVars,
                   chunkVars>>

\* --------------------------------------- Spec: threads calling SOCKET.send
\* A thread calls SOCKET.send(b).
CallSend(t) ==
    /\ pc[t] = "idle"
    /\ \E b \in SendBuffers(t) :
         Enter(t, [fn |-> "LogdSocket::send"], b, "send_lock", <<>>, "none")
    /\ UNCHANGED <<platform, configVars, sinkVars, staticVars, sockVars, it, codecVars, chunkVars>>

\* send returns its result to that thread.
SendReturn(t) ==
    /\ pc[t] = "send_ret"
    /\ op[t].fn = "LogdSocket::send"
    /\ ret' = [ret EXCEPT ![t] = send_result[t]]
    /\ pc' = [pc EXCEPT ![t] = "returned"]
    /\ UNCHANGED <<platform, configVars, sinkVars, staticVars, sockVars, op, buffer, new_socket, send_result,
                   it, io, console, codecVars, chunkVars>>

Init ==
    /\ platform = "android"
    /\ StaticsUninit /\ ConfigIdle /\ SinkIdle
    /\ \E c \in BOOLEAN : SocketConnected(c)
    /\ ThreadsIdle
    /\ CodecIdle /\ ChunkIdle

Next ==
    \E t \in Threads :
        \/ CallSend(t)
        \/ SendLock(t)
        \/ SendFirst(t)
        \/ SendUnbound(t)
        \/ SendUpgrade(t)
        \/ SendConnect(t)
        \/ SendSetNonblocking(t)
        \/ SendRetry(t)
        \/ SendReturn(t)
        \/ Resume(t)

Spec == Init /\ [][Next]_vars

\* The steps of send that are calls of the operating system or need no
\* other thread: the first send, unbound, the upgrade (no thread holds the
\* lock shared), connect, set_nonblocking, the retry, and the return.
SendStep(t) ==
    \/ SendFirst(t)
    \/ SendUnbound(t)
    \/ SendUpgrade(t)
    \/ SendConnect(t)
    \/ SendSetNonblocking(t)
    \/ SendRetry(t)
    \/ SendReturn(t)

\* The scheduling send relies on: a call of the operating system returns
\* and a thread that can run does; and parking_lot's lock, which is
\* eventually fair, grants upgradable_read to a thread that finds the lock
\* free again and again.  Nothing makes a thread call send or go on after it.
SendFairness ==
    \A t \in Threads : WF_vars(SendStep(t)) /\ SF_vars(SendLock(t))

SpecLive == Spec /\ SendFairness

\* ------------------------------------------- SpecApi: the calls of the API
\* The thread the host application calls the library on.
MainThread == 1

\* logd::log(record): the timestamp is unwrapped, the frame built and given
\* to SOCKET.send.
LogdLog(t) ==
    /\ pc[t] = "idle"
    /\ platform = "android"
    /\ \E record \in Records(t) :
         LET o == [fn |-> "logd::log", record |-> record]
             d == duration_since_epoch(record.timestamp)
         IN  IF d.ok
             THEN Enter(t, o, log_frame(t, record, d), "send_lock", <<>>, "none")
             ELSE Enter(t, o, <<>>, "panicked", <<>>, "panic")
    /\ UNCHANGED <<platform, configVars, sinkVars, staticVars, sockVars, it, codecVars, chunkVars>>

\* logd::log after SOCKET.send: `if let Err(e) = ... { eprintln!(...) }`.
LogAfterSend(t) ==
    /\ pc[t] = "send_ret"
    /\ op[t].fn = "logd::log"
    /\ LET a == after_send(send_result[t])
       IN  /\ pc' = [pc EXCEPT ![t] = a.pc]
           /\ console' = [console EXCEPT ![t] = @ \o a.console]
           /\ ret' = [ret EXCEPT ![t] = IF a.pc = "panicked" THEN "panic" ELSE "()"]
    /\ UNCHANGED <<platform, configVars, sinkVars, staticVars, sockVars, op, buffer, new_socket, send_result,
                   it, io, codecVars, chunkVars>>

\* events.rs write_event_buffer(log_buffer, event), entered as api: the size
\* check, then logd::write_event (android: timestamp unwrapped, frame built
\* and given to SOCKET.send) or println!, then Ok(()).
write_event_buffer(t, api, log_buffer, event) ==
    LET o == [fn |-> api, log_buffer |-> log_buffer, event |-> event]
        d == duration_since_epoch(event.timestamp)
    IN  IF event_too_large(event.value)
        THEN Enter(t, o, <<>>, "returned", <<>>, "Err(EventSize)")
        ELSE IF platform # "android"
        THEN Enter(t, o, <<>>, "returned", <<"stdout">>, "Ok")
        ELSE IF d.ok
        THEN Enter(t, o, event_frame(t, log_buffer, event, d), "send_lock", <<>>, "none")
        ELSE Enter(t, o, <<>>, "panicked", <<>>, "panic")

WriteEventBuffer(t) ==
    /\ pc[t] = "idle"
    /\ \E log_buffer \in EventBuffers, event \in Events :
         write_event_buffer(t, "write_event_buffer", log_buffer, event)
    /\ UNCHANGED <<platform, configVars, sinkVars, staticVars, sockVars, it, codecVars, chunkVars>>

\* write_event(event) is write_event_buffer(Buffer::Events, event).
WriteEvent(t) ==
    /\ pc[t] = "idle"
    /\ \E event \in Events : write_event_buffer(t, "write_event", BufferEvents, event)
    /\ UNCHANGED <<platform, configVars, sinkVars, staticVars, sockVars, it, codecVars, chunkVars>>

\* write_event_now(tag, value): write_event with SystemTime::now(), the
\* reading of the wall clock.
WriteEventNow(t) ==
    /\ pc[t] = "idle"
    /\ \E event \in Events : write_event_buffer(t, "write_event_now", BufferEvents, event)
    /\ UNCHANGED <<platform, configVars, sinkVars, staticVars, sockVars, it, codecVars, chunkVars>>

\* write_event_buffer_now(log_buffer, tag, value).
WriteEventBufferNow(t) ==
    /\ pc[t] = "idle"
    /\ \E log_buffer \in EventBuffers, event \in Events :
         write_event_buffer(t, "write_event_buffer_now", log_buffer, event)
    /\ UNCHANGED <<platform, configVars, sinkVars, staticVars, sockVars, it, codecVars, chunkVars>>

EventApis ==
    {"write_event_buffer", "write_event", "write_event_now", "write_event_buffer_now"}

\* logd::write_event after SOCKET.send (`if let Err(e)`, eprintln!) and the
\* Ok(()) write_event_buffer ends with.
WriteEventAfterSend(t) ==
    /\ pc[t] = "send_ret"
    /\ op[t].fn \in EventApis
    /\ LET a == after_send(send_result[t])
       IN  /\ pc' = [pc EXCEPT ![t] = a.pc]
           /\ console' = [console EXCEPT ![t] = @ \o a.console]
           /\ ret' = [ret EXCEPT ![t] = IF a.pc = "panicked" THEN "panic" ELSE "Ok"]
    /\ UNCHANGED <<platform, configVars, sinkVars, staticVars, sockVars, op, buffer, new_socket, send_result,
                   it, io, codecVars, chunkVars>>

\* A lazily initialised static on first use: ready, or poisoned by the
\* `expect` of its initialiser; later uses find it as it is.
LazyInit(s) == IF s = "uninit" THEN {"ready", "poisoned"} ELSE {s}

\* SystemTime::elapsed(): the time from the timestamp to now, by the clock
\* at the call; an error when the timestamp lies after now.
ElapsedOutcomes ==
    {[ok |-> FALSE], [ok |-> TRUE, secs_hi |-> 0, secs_lo |-> 0, nanos |-> 1500],
     [ok |-> TRUE, secs_hi |-> 0, secs_lo |-> 3, nanos |-> 0]}

\* lib.rs write_event_buffer: the size check; on android the age of the
\* timestamp (`elapsed().unwrap()`: an error for a timestamp in the future),
\* the frame, and one send on the plain socket whose error is returned as
\* Error::Io.
LibWriteEventBuffer(t) ==
    /\ pc[t] = "idle"
    /\ \E log_buffer \in EventBuffers, event \in Events :
         LET o == [fn |-> "lib::write_event_buffer", log_buffer |-> log_buffer,
                   event |-> event]
         IN  IF event_too_large(event.value)
             THEN Enter(t, o, <<>>, "returned", <<>>, "Err(EventSize)")
                    /\ UNCHANGED SOCKET
             ELSE IF platform # "android"
             THEN Enter(t, o, <<>>, "returned", <<"stdout">>, "Ok") /\ UNCHANGED SOCKET
             ELSE \E d \in ElapsedOutcomes :
                        IF ~d.ok
                        THEN Enter(t, o, <<>>, "panicked", <<>>, "panic")
                               /\ UNCHANGED SOCKET
                        ELSE /\ SOCKET' \in LazyInit(SOCKET)
                             /\ Enter(t, o, event_frame(t, log_buffer, event, d),
                                      IF SOCKET' = "ready" THEN "lib_send" ELSE "panicked",
                                      <<>>,
                                      IF SOCKET' = "ready" THEN "none" ELSE "panic")
    /\ UNCHANGED <<platform, configVars, sinkVars, PMSG_DEV, sockVars, it, codecVars, chunkVars>>

\* lib.rs Logger::log: the filter, then on android one clock read, the
\* frame and one send on the plain socket.  The record carries what the
\* logger makes of the log::Record (tag, priority, message) and the clock's
\* reading; matches is the filter's verdict.
LibLoggerLog(t) ==
    /\ pc[t] = "idle"
    /\ t = MainThread
    /\ platform = "android"
    /\ \E record \in Records(t), matches \in BOOLEAN :
         LET o == [fn |-> "lib::Logger::log", record |-> record]
             d == duration_since_epoch(record.timestamp)
         IN  IF ~matches
             THEN Enter(t, o, <<>>, "returned", <<>>, "()") /\ UNCHANGED SOCKET
             ELSE IF ~d.ok
             THEN Enter(t, o, <<>>, "panicked", <<>>, "panic") /\ UNCHANGED SOCKET
             ELSE /\ SOCKET' \in LazyInit(SOCKET)
                  /\ Enter(t, o, log_frame(t, record, d),
                           IF SOCKET' = "ready" THEN "lib_send" ELSE "panicked",
                           <<>>,
                           IF SOCKET' = "ready" THEN "none" ELSE "panic")
    /\ UNCHANGED <<platform, configVars, sinkVars, PMSG_DEV, sockVars, it, codecVars, chunkVars>>

\* The send on lib.rs' plain socket: write_event_buffer has
\* `SOCKET.send(&buffer).map_err(Error::Io)?; Ok(())`, Logger::log has
\* `SOCKET.send(&buffer).expect("Logd socket error")`.
LibSend(t) ==
    /\ pc[t] = "lib_send"
    /\ \E res \in {"Ok", "ConnectionRefused"} :
         /\ io' = [io EXCEPT ![t] = Append(@, IoCall("send", 0, buffer[t], res))]
         /\ IF op[t].fn = "lib::Logger::log"
            THEN /\ ret' = [ret EXCEPT ![t] = IF res = "Ok" THEN "()" ELSE "panic"]
                 /\ pc' = [pc EXCEPT ![t] = IF res = "Ok" THEN "returned" ELSE "panicked"]
            ELSE /\ ret' = [ret EXCEPT ![t] = IF res = "Ok" THEN "Ok" ELSE "Err(Io)"]
                 /\ pc' = [pc EXCEPT ![t] = "returned"]
    /\ UNCHANGED <<platform, configVars, sinkVars, staticVars, sockVars, op, buffer, new_socket, send_result,
                   it, console, codecVars, chunkVars>>

\* pmsg::log(record): the loop over the chunks of the message begins.
PmsgLog(t) ==
    /\ pc[t] = "idle"
    /\ platform = "android"
    /\ \E record \in PmsgRecords(t) :
         Enter(t, [fn |-> "pmsg::log", record |-> record], <<>>, "pmsg_next", <<>>, "none")
           /\ it' = [it EXCEPT ![t] = [data |-> record.message, idx |-> 0]]
    /\ UNCHANGED <<platform, configVars, sinkVars, staticVars, sockVars, codecVars, chunkVars>>

\* The sequence number without the increment: the chunk's index.
sequence_nr_unscaled(idx) == idx

\* `let sequence_nr = idx * ANDROID_LOG_PMSG_SEQUENCE_INCREMENT`.
sequence_nr(idx) == idx * ANDROID_LOG_PMSG_SEQUENCE_INCREMENT

\* One turn of the loop up to the write: the iterator's next(), the sequence
\* number's check, and log_pmsg_packet building the frame: the lengths (the
\* u16 sum panics on overflow when the build checks it), then the timestamp,
\* unwrapped.
PmsgNext(t) ==
    /\ pc[t] = "pmsg_next"
    /\ LET r == chunk_next(it[t].data, ANDROID_LOG_ENTRY_MAX_PAYLOAD)
           d == duration_since_epoch(op[t].record.timestamp)
       IN  IF r.item = <<>> \/ sequence_nr(it[t].idx) >= ANDROID_LOG_PMSG_MAX_SEQUENCE
           THEN /\ pc' = [pc EXCEPT ![t] = "returned"]
                /\ ret' = [ret EXCEPT ![t] = "()"]
                /\ UNCHANGED <<buffer, it>>
           ELSE \E overflow_checks \in
                     IF packet_len_overflows(op[t].record, r.item[1])
                     THEN BOOLEAN ELSE {FALSE} :
                  IF overflow_checks \/ ~d.ok
                  THEN /\ pc' = [pc EXCEPT ![t] = "panicked"]
                       /\ ret' = [ret EXCEPT ![t] = "panic"]
                       /\ UNCHANGED <<buffer, it>>
                  ELSE /\ pc' = [pc EXCEPT ![t] = "pmsg_write"]
                       /\ buffer' = [buffer EXCEPT ![t] =
                                       pmsg_frame(op[t].record, r.item[1], d)]
                       /\ it' = [it EXCEPT ![t] = [data |-> r.data, idx |-> @.idx + 1]]
                       /\ UNCHANGED ret
    /\ UNCHANGED <<platform, configVars, sinkVars, staticVars, sockVars, op, new_socket, send_result, io,
                   console, codecVars, chunkVars>>

\* `PMSG_DEV.write()` (the device is opened on first use) and
\* `if let Err(e) = pmsg.write_all(&buffer) { eprintln!(...) }`.
PmsgWrite(t) ==
    /\ pc[t] = "pmsg_write"
    /\ PMSG_DEV' \in LazyInit(PMSG_DEV)
    /\ IF PMSG_DEV' # "ready"
       THEN /\ pc' = [pc EXCEPT ![t] = "panicked"]
            /\ ret' = [ret EXCEPT ![t] = "panic"]
            /\ UNCHANGED <<io, console>>
       ELSE \E res \in {"Ok", "WriteZero"} :
              LET a == after_write_all(res)
              IN  /\ io' = [io EXCEPT ![t] = Append(@, IoCall("write_all", 0, buffer[t], res))]
                  /\ pc' = [pc EXCEPT ![t] = a.pc]
                  /\ console' = [console EXCEPT ![t] = @ \o a.console]
                  /\ ret' = [ret EXCEPT ![t] = IF a.pc = "panicked" THEN "panic" ELSE @]
    /\ UNCHANGED <<platform, configVars, sinkVars, SOCKET, sockVars, op, buffer, new_socket, send_result, it,
                   codecVars, chunkVars>>

\* ------------------------------------------------- pmsg::log, long messages
\* A message of 2 * n chunks: n times a newline, 4067 bytes and a newline,
\* which the iterator cuts after the first newline and after the second.
LongLines(n) == Flatten([i \in 1..n |-> <<10>> \o Repeat(97, 4067) \o <<10>>])

\* Messages of 256 and of 257 chunks.
LongMessages == {LongLines(128), LongLines(128) \o <<97>>}

\* Records with these messages; their time is after the epoch and their
\* frames are shorter than a u16 counts, so log_pmsg_packet's unwrap and
\* sum succeed.
LongRecords(t) ==
    {[timestamp |-> SystemTime(FALSE, 0, 1700000000, 123456789), pid |-> 4242,
      thread_id |-> AsU16(thread_id(t)), buffer_id |-> BufferMain,
      tag |-> StrTest, priority |-> PriorityInfo, message |-> m] : m \in LongMessages}

\* One turn of pmsg::log's loop from the state st (the writes made so far,
\* what the iterator holds, the index of the next chunk, and whether the loop
\* has ended): next(), the check of the sequence number, and
\* log_pmsg_packet's write, which returns res.
pmsg_turn(record, st, res) ==
    LET r == chunk_next(st.data, ANDROID_LOG_ENTRY_MAX_PAYLOAD)
    IN  IF r.item = <<>> \/ sequence_nr(st.idx) >= ANDROID_LOG_PMSG_MAX_SEQUENCE
        THEN [st EXCEPT !.done = TRUE]
        ELSE [calls |-> Append(st.calls,
                               IoCall("write_all", 0,
                                      pmsg_frame(record, r.item[1],
                                                 duration_since_epoch(record.timestamp)),
                                      res)),
              data |-> r.data, idx |-> st.idx + 1, done |-> FALSE]

RECURSIVE pmsg_turns(_, _, _, _)
\* Up to n turns of the loop, one after the other, stopping when the loop
\* has ended (evaluated by halves of n to keep the evaluation shallow).
pmsg_turns(record, st, res, n) ==
    IF st.done \/ n = 0 THEN st
    ELSE IF n = 1 THEN pmsg_turn(record, st, res)
    ELSE pmsg_turns(record, pmsg_turns(record, st, res, n \div 2), res, n - n \div 2)

\* pmsg::log on a long record, the whole call in one step: the loop runs
\* until it ends, which takes a turn per byte of the message at most.  The
\* device takes every write of the call or refuses every one.
PmsgLogLong(t) ==
    /\ pc[t] = "idle"
    /\ platform = "android"
    /\ PMSG_DEV' \in LazyInit(PMSG_DEV)
    /\ \E record \in LongRecords(t) : \E res \in {"Ok", "WriteZero"} :
         /\ op' = [op EXCEPT ![t] = [fn |-> "pmsg::log", record |-> record]]
         /\ IF PMSG_DEV' # "ready"
            THEN /\ pc' = [pc EXCEPT ![t] = "panicked"]
                 /\ ret' = [ret EXCEPT ![t] = "panic"]
                 /\ it' = [it EXCEPT ![t] = [data |-> record.message, idx |-> 0]]
                 /\ io' = [io EXCEPT ![t] = <<>>]
                 /\ console' = [console EXCEPT ![t] = <<>>]
            ELSE /\ pc' = [pc EXCEPT ![t] = "returned"]
                 /\ ret' = [ret EXCEPT ![t] = "()"]
                 /\ LET end == pmsg_turns(record,
                                          [calls |-> <<>>, data |-> record.message,
                                           idx |-> 0, done |-> FALSE],
                                          res, Len(record.message) + 1)
                    IN  /\ io' = [io EXCEPT ![t] = end.calls]
                        /\ it' = [it EXCEPT ![t] = [data |-> end.data, idx |-> end.idx]]
                 /\ console' = [console EXCEPT ![t] =
                                 Flatten([i \in 1..Len(io'[t]) |->
                                            after_write_all(res).console])]
    /\ buffer' = [buffer EXCEPT ![t] = <<>>]
    /\ new_socket' = [new_socket EXCEPT ![t] = 0]
    /\ send_result' = [send_result EXCEPT ![t] = "none"]
    /\ UNCHANGED <<platform, configVars, sinkVars, SOCKET, sockVars, codecVars, chunkVars>>

\* The main thread calls pmsg::log, with short records and long ones.
InitPmsg ==
    /\ platform = "android"
    /\ StaticsUninit /\ ConfigIdle /\ SinkIdle
    /\ SocketConnected(TRUE)
    /\ ThreadsIdle
    /\ CodecIdle /\ ChunkIdle

NextPmsg ==
    \/ PmsgLog(MainThread)
    \/ PmsgLogLong(MainThread)
    \/ PmsgNext(MainThread)
    \/ PmsgWrite(MainThread)
    \/ Resume(MainThread)

SpecPmsg == InitPmsg /\ [][NextPmsg]_vars

InitApi ==
    /\ platform \in {"android", "other"}
    /\ StaticsUninit /\ ConfigIdle /\ SinkIdle
    /\ \E c \in BOOLEAN : SocketConnected(c)
    /\ ThreadsIdle
    /\ CodecIdle /\ ChunkIdle

NextApi ==
    \/ LogdLog(MainThread)
    \/ LogAfterSend(MainThread)
    \/ WriteEventBuffer(MainThread)
    \/ WriteEvent(MainThread)
    \/ WriteEventNow(MainThread)
    \/ WriteEventBufferNow(MainThread)
    \/ WriteEventAfterSend(MainThread)
    \/ LibWriteEventBuffer(MainThread)
    \/ LibLoggerLog(MainThread)
    \/ LibSend(MainThread)
    \/ PmsgLog(MainThread)
    \/ PmsgNext(MainThread)
    \/ PmsgWrite(MainThread)
    \/ SendLock(MainThread)
    \/ SendFirst(MainThread)
    \/ SendUnbound(MainThread)
    \/ SendUpgrade(MainThread)
    \/ SendConnect(MainThread)
    \/ SendSetNonblocking(MainThread)
    \/ SendRetry(MainThread)
    \/ Resume(MainThread)

SpecApi == InitApi /\ [][NextApi]_vars

\* --------------------------------------------------- logger.rs: the logger
\* log::Level and LevelFilter, by verbosity.
LevelRank(l) ==
    CASE l = "Off" -> 0 [] l = "Error" -> 1 [] l = "Warn" -> 2 [] l = "Info" -> 3
      [] l = "Debug" -> 4 [] l = "Trace" -> 5

\* impl From<log::Level> for Priority.
level_priority(l) ==
    CASE l = "Error" -> PriorityError [] l = "Warn" -> PriorityWarn
      [] l = "Info" -> PriorityInfo [] l = "Debug" -> PriorityDebug
      [] l = "Trace" -> PriorityVerbose

\* str::starts_with.
starts_with(s, prefix) ==
    Len(prefix) <= Len(s) /\ SubSeq(s, 1, Len(prefix)) = prefix

\* Filter::matches: the last directive whose name is a prefix of the record's
\* target (or that has no name) decides, by the record's level being at most
\* its level; with no such directive the record is rejected.
filter_matches(filter, input) ==
    LET hits == {i \in 1..Len(filter) :
                   filter[i].name = <<>> \/ starts_with(input.target, filter[i].name[1])}
    IN  /\ hits # {}
        /\ LET last == CHOOSE i \in hits : \A j \in hits : j <= i
           IN  LevelRank(input.level) <= LevelRank(filter[last].level)

\* Filter::filter: the most verbose level of the directives.
filter_max(filter) ==
    IF Len(filter) = 0 THEN "Off"
    ELSE LET i == CHOOSE i \in 1..Len(filter) :
                    \A j \in 1..Len(filter) :
                        LevelRank(filter[j].level) <= LevelRank(filter[i].level)
         IN  filter[i].level

\* target.split_once("::").map(|(tag, _)| tag).unwrap_or(target)
RECURSIVE strip_target(_, _)
strip_target(target, i) ==
    IF i + 1 > Len(target) THEN target
    ELSE IF target[i] = 58 /\ target[i + 1] = 58 THEN SubSeq(target, 1, i - 1)
    ELSE strip_target(target, i + 1)

\* The tag with TargetStrip dropping the last four bytes of a target that has
\* a "::".
record_tag_last_separator(mode, input) ==
    CASE mode.mode = "Target" -> input.target
      [] mode.mode = "TargetStrip" ->
           IF strip_target(input.target, 1) = input.target THEN input.target
           ELSE SubSeq(input.target, 1, Len(input.target) - 4)
      [] mode.mode = "Custom" -> mode.tag

\* The tag of a record under a tag mode.
record_tag(mode, input) ==
    CASE mode.mode = "Target" -> input.target
      [] mode.mode = "TargetStrip" -> strip_target(input.target, 1)
      [] mode.mode = "Custom" -> mode.tag

\* The message: `[module_path, &args].join(": ")` with prepend_module.
record_message(prepend_module, input) ==
    IF prepend_module THEN input.module_path[1] \o <<58, 32>> \o input.args
    ELSE input.args

\* The log::Records the application logs: an error of module "app" with
\* target "app::net::io", a trace line of two pmsg chunks with target
\* "app::net" and an error with an empty message and target "app", the last
\* two without a module path.
StrApp == <<97, 112, 112>>
StrAppNet == StrApp \o <<58, 58, 110, 101, 116>>
StrAppNetIo == StrAppNet \o <<58, 58, 105, 111>>
LogRecords ==
    {[level |-> "Error", target |-> StrAppNetIo, module_path |-> <<StrApp>>, args |-> StrTest],
     [level |-> "Trace", target |-> StrAppNet, module_path |-> <<>>, args |-> LongMessage],
     [level |-> "Error", target |-> StrApp, module_path |-> <<>>, args |-> <<>>]}

\* The configurations a logger is built with.
InitialConfigurations ==
    {Configuration(filter_level("Info"), TagTarget, FALSE, FALSE, BufferMain),
     Configuration(filter_level("Debug"), TagTargetStrip, TRUE, TRUE, BufferMain)}

\* The reconfiguration calls of Logger made by the application.
Changes ==
    {[call |-> "set_buffer", buffer |-> BufferStats],
     [call |-> "set_custom_tag", tag |-> StrOne],
     [call |-> "set_prepend_module", prepend_module |-> TRUE],
     [call |-> "set_pstore", pstore |-> TRUE],
     [call |-> "set_level_filter", level |-> "Trace"]}

\* What a reconfiguration call writes under the write lock.
apply_change(cfg, change) ==
    LET c == [cfg EXCEPT !.version = @ + 1]
    IN  CASE change.call = "set_buffer" -> [c EXCEPT !.buffer_id = change.buffer]
          [] change.call = "set_custom_tag" -> [c EXCEPT !.tag = TagCustom(change.tag)]
          [] change.call = "set_prepend_module" ->
                [c EXCEPT !.prepend_module = change.prepend_module]
          [] change.call = "set_pstore" -> [c EXCEPT !.pstore = change.pstore]
          [] change.call = "set_level_filter" ->
                [c EXCEPT !.filter = filter_level(change.level)]
          [] change.call = "set_module_and_level_filter" ->
                [c EXCEPT !.filter = filter_module(change.module, change.level)]

\* LevelFilter::to_level, an Option.
to_level(level) == IF level = "Off" THEN <<>> ELSE <<level>>

\* The RwLock of the configuration.  A write guard lives within one
\* statement; the read guard `binder` of LoggerImpl::log lives from its `let`
\* to the end of the call, so who holds it follows from the positions.
BinderPcs ==
    {"log_record", "send_lock", "send_first", "unbound", "upgrade", "connect",
     "set_nonblocking", "send_retry", "send_ret", "log_pstore", "pmsg_next",
     "pmsg_write"}
BinderHeld(u) == op[u].fn = "LoggerImpl::log" /\ pc[u] \in BinderPcs
WritePcs == {"log_prepend", "cfg_write"}
\* A thread is in write() and some read guard keeps it waiting.
WriterWaits ==
    /\ \E u \in Threads : pc[u] \in WritePcs
    /\ \E v \in Threads : BinderHeld(v)
\* read() returns a guard: no writer holds the lock (none does between two
\* steps) and, where the lock prefers writers, none waits.
CanRead == ~(writer_priority /\ WriterWaits)
\* write() returns a guard: no read guard is out.
CanWrite == \A v \in Threads : ~BinderHeld(v)

\* The mirror to pmsg made whatever the pstore flag says.
after_logd_log_always_pmsg(pstore) == "pmsg_next"

\* `if self.configuration_handle.getter().pstore { crate::pmsg::log(..) }`
after_logd_log(pstore) == IF pstore THEN "pmsg_next" ELSE "returned"

\* `SystemTime::now()`: a time after the epoch, or one before it.
Now == {SystemTime(FALSE, 0, 1700000000, 123456789), SystemTime(TRUE, 0, 1, 0)}

\* What thread t's call has read of the configuration: field by field, with
\* the version read from appended to seen.
Read(o, field, val) ==
    [o EXCEPT ![field] = val, !.seen = Append(@, configuration.version)]

\* LoggerImpl::log(record) is entered: the application logs from its main
\* thread, while every thread may reconfigure.
LoggerLog(t) ==
    /\ pc[t] = "idle"
    /\ t = MainThread
    /\ \E input \in LogRecords :
         Enter(t, [fn |-> "LoggerImpl::log", input |-> input, matches |-> FALSE,
                   message |-> <<>>, tag |-> <<>>, pstore |-> FALSE, seen |-> <<>>,
                   record |-> <<>>],
               <<>>, "log_filter", <<>>, "none")
    /\ UNCHANGED <<platform, configVars, sinkVars, staticVars, sockVars, it, codecVars,
                   chunkVars>>

\* `if !self.configuration_handle.getter().filter.matches(record) { return; }`
\* under a read guard of its own; without a module path the message is the
\* arguments.
LogFilter(t) ==
    /\ pc[t] = "log_filter"
    /\ CanRead
    /\ ~poisoned
    /\ LET m == filter_matches(configuration.filter, op[t].input)
           o == Read(op[t], "matches", m)
       IN  /\ op' = [op EXCEPT ![t] = [o EXCEPT !.message = op[t].input.args]]
           /\ pc' = [pc EXCEPT ![t] =
                       IF ~m THEN "returned"
                       ELSE IF op[t].input.module_path # <<>> THEN "log_prepend"
                       ELSE "log_binder"]
           /\ ret' = [ret EXCEPT ![t] = IF ~m THEN "()" ELSE @]
    /\ UNCHANGED <<platform, configVars, sinkVars, staticVars, sockVars, buffer,
                   new_socket, send_result, it, io, console, codecVars, chunkVars>>

\* `self.configuration_handle.get_prepend_module()`: the flag, read under a
\* write guard.
LogPrependModule(t) ==
    /\ pc[t] = "log_prepend"
    /\ CanWrite
    /\ ~poisoned
    /\ op' = [op EXCEPT ![t] =
                Read(op[t], "message",
                     record_message(configuration.prepend_module, op[t].input))]
    /\ pc' = [pc EXCEPT ![t] = "log_binder"]
    /\ UNCHANGED <<platform, configVars, sinkVars, staticVars, sockVars, buffer,
                   new_socket, send_result, it, io, console, ret, codecVars, chunkVars>>

\* `let binder = self.configuration_handle.getter()` and the tag; off android
\* the record is printed and the call returns.
LogBinder(t) ==
    /\ pc[t] = "log_binder"
    /\ CanRead
    /\ ~poisoned
    /\ op' = [op EXCEPT ![t] =
                Read(op[t], "tag", record_tag(configuration.tag, op[t].input))]
    /\ IF platform = "android"
       THEN /\ pc' = [pc EXCEPT ![t] = "log_record"]
            /\ UNCHANGED <<console, ret>>
       ELSE /\ pc' = [pc EXCEPT ![t] = "returned"]
            /\ console' = [console EXCEPT ![t] = Append(@, "stdout")]
            /\ ret' = [ret EXCEPT ![t] = "()"]
    /\ UNCHANGED <<platform, configVars, sinkVars, staticVars, sockVars, buffer,
                   new_socket, send_result, it, io, codecVars, chunkVars>>

\* The clock is read once (`expect`: a panic before the epoch) and the Record
\* built, its buffer_id read through another getter() while binder is held;
\* logd::log builds the frame and enters SOCKET.send.
LogRecord(t) ==
    /\ pc[t] = "log_record"
    /\ \E now \in Now :
         LET d == duration_since_epoch(now)
             record == [timestamp |-> now, pid |-> 4242,
                        thread_id |-> AsU16(thread_id(t)),
                        buffer_id |-> configuration.buffer_id, tag |-> op[t].tag,
                        priority |-> level_priority(op[t].input.level),
                        message |-> op[t].message]
         IN  IF ~d.ok
             THEN /\ pc' = [pc EXCEPT ![t] = "panicked"]
                  /\ ret' = [ret EXCEPT ![t] = "panic"]
                  /\ UNCHANGED <<op, buffer>>
             ELSE /\ CanRead
                  /\ ~poisoned
                  /\ op' = [op EXCEPT ![t] = Read(op[t], "record", record)]
                  /\ buffer' = [buffer EXCEPT ![t] = log_frame(t, record, d)]
                  /\ pc' = [pc EXCEPT ![t] = "send_lock"]
                  /\ UNCHANGED ret
    /\ UNCHANGED <<platform, configVars, sinkVars, staticVars, sockVars, new_socket,
                   send_result, it, io, console, codecVars, chunkVars>>

\* logd::log after SOCKET.send, back in LoggerImpl::log.
LoggerAfterSend(t) ==
    /\ pc[t] = "send_ret"
    /\ op[t].fn = "LoggerImpl::log"
    /\ LET a == after_send(send_result[t])
       IN  /\ pc' = [pc EXCEPT ![t] = IF a.pc = "returned" THEN "log_pstore" ELSE a.pc]
           /\ console' = [console EXCEPT ![t] = @ \o a.console]
           /\ ret' = [ret EXCEPT ![t] = IF a.pc = "panicked" THEN "panic" ELSE @]
    /\ UNCHANGED <<platform, configVars, sinkVars, staticVars, sockVars, op, buffer,
                   new_socket, send_result, it, io, codecVars, chunkVars>>

\* `if self.configuration_handle.getter().pstore { crate::pmsg::log(..) }`,
\* the flag read through a third getter() while binder is held.
LogPstore(t) ==
    /\ pc[t] = "log_pstore"
    /\ CanRead
    /\ ~poisoned
    /\ LET p == configuration.pstore
       IN  /\ op' = [op EXCEPT ![t] = Read(op[t], "pstore", p)]
           /\ pc' = [pc EXCEPT ![t] = after_logd_log(p)]
           /\ it' = [it EXCEPT ![t] =
                       IF after_logd_log(p) = "pmsg_next"
                       THEN [data |-> op[t].message, idx |-> 0] ELSE @]
           /\ ret' = [ret EXCEPT ![t] = IF after_logd_log(p) = "returned" THEN "()" ELSE @]
    /\ UNCHANGED <<platform, configVars, sinkVars, staticVars, sockVars, buffer,
                   new_socket, send_result, io, console, codecVars, chunkVars>>

\* A reconfiguration call of Logger is entered: `self.configuration.write()`.
ConfigCall(t) ==
    /\ pc[t] = "idle"
    /\ configuration.version + Cardinality({u \in Threads : pc[u] = "cfg_write"})
         < MaxReconfigs
    /\ \E change \in Changes :
         Enter(t, [fn |-> "Logger::set", change |-> change], <<>>, "cfg_write", <<>>,
               "none")
    /\ UNCHANGED <<platform, configVars, sinkVars, staticVars, sockVars, it, codecVars,
                   chunkVars>>

\* It has the write guard: the field is set, the guard dropped and &Self
\* returned to the caller, which goes on.
ConfigWrite(t) ==
    /\ pc[t] = "cfg_write"
    /\ CanWrite
    /\ ~poisoned
    /\ configuration' = apply_change(configuration, op[t].change)
    /\ pc' = [pc EXCEPT ![t] = "idle"]
    /\ op' = [op EXCEPT ![t] = NoOp]
    /\ UNCHANGED <<platform, writer_priority, poisoned, sinkVars, staticVars, sockVars, buffer,
                   new_socket, send_result, it, io, console, ret, codecVars, chunkVars>>

InitLogger ==
    /\ platform \in {"android", "other"}
    /\ StaticsUninit /\ SinkIdle
    /\ configuration \in InitialConfigurations
    /\ writer_priority \in BOOLEAN
    /\ poisoned = FALSE
    /\ SocketConnected(TRUE)
    /\ ThreadsIdle
    /\ CodecIdle /\ ChunkIdle

NextLogger ==
    \E t \in Threads :
        \/ LoggerLog(t)
        \/ LogFilter(t)
        \/ LogPrependModule(t)
        \/ LogBinder(t)
        \/ LogRecord(t)
        \/ LoggerAfterSend(t)
        \/ LogPstore(t)
        \/ ConfigCall(t)
        \/ ConfigWrite(t)
        \/ SendLock(t)
        \/ SendFirst(t)
        \/ SendUnbound(t)
        \/ SendUpgrade(t)
        \/ SendConnect(t)
        \/ SendSetNonblocking(t)
        \/ SendRetry(t)
        \/ PmsgNext(t)
        \/ PmsgWrite(t)
        \/ Resume(t)

SpecLogger == InitLogger /\ [][NextLogger]_vars

\* ------------------------------------------- the filter calls of Logger
\* The calls that replace the filter: set_level_filter with every
\* LevelFilter, set_module_and_level_filter for module "app".
LevelFilters == {"Off", "Error", "Warn", "Info", "Debug", "Trace"}
FilterChanges ==
    {[call |-> "set_level_filter", level |-> l] : l \in LevelFilters}
        \cup {[call |-> "set_module_and_level_filter", module |-> StrApp, level |-> l] :
                l \in LevelFilters}

\* The application makes these calls one at a time, from any of its threads.
Quiet(t) == \A u \in Threads \ {t} : pc[u] \in {"idle", "panicked"}

\* The positions at which a call is in read() or write() of the
\* configuration's lock.
LockPcs == {"log_filter", "log_prepend", "log_binder", "log_pstore", "cfg_write",
            "cfg_get"}

\* `.read().unwrap()` and `.write().unwrap()` on the poisoned lock: a panic.
LockPoisoned(t) ==
    /\ pc[t] \in LockPcs
    /\ poisoned
    /\ pc' = [pc EXCEPT ![t] = "panicked"]
    /\ ret' = [ret EXCEPT ![t] = "panic"]
    /\ UNCHANGED <<platform, configVars, sinkVars, staticVars, sockVars, op, buffer,
                   new_socket, send_result, it, io, console, codecVars, chunkVars>>

\* set_level_filter or set_module_and_level_filter is entered.
FilterCall(t) ==
    /\ pc[t] = "idle"
    /\ Quiet(t)
    /\ configuration.version < MaxFilterCalls
    /\ \E change \in FilterChanges :
         Enter(t, [fn |-> "Logger::set", change |-> change], <<>>, "cfg_write", <<>>,
               "none")
    /\ UNCHANGED <<platform, configVars, sinkVars, staticVars, sockVars, it, codecVars,
                   chunkVars>>

\* get_level_filter is entered: `self.configuration.write()`.
GetLevelFilter(t) ==
    /\ pc[t] = "idle"
    /\ Quiet(t)
    /\ Enter(t, [fn |-> "Logger::get_level_filter", filter |-> <<>>], <<>>, "cfg_get",
             <<>>, "none")
    /\ UNCHANGED <<platform, configVars, sinkVars, staticVars, sockVars, it, codecVars,
                   chunkVars>>

\* get_level_filter under the write guard:
\* `.filter.filter().to_level().unwrap().to_level_filter()`.  to_level() of
\* LevelFilter::Off is None: the unwrap panics with the write guard alive,
\* which poisons the lock.
GetLevelFilterUnwrap(t) ==
    /\ pc[t] = "cfg_get"
    /\ CanWrite
    /\ ~poisoned
    /\ LET level == filter_max(configuration.filter)
       IN  /\ op' = [op EXCEPT ![t].filter = configuration.filter]
           /\ IF to_level(level) = <<>>
              THEN /\ pc' = [pc EXCEPT ![t] = "panicked"]
                   /\ ret' = [ret EXCEPT ![t] = "panic"]
                   /\ poisoned' = TRUE
              ELSE /\ pc' = [pc EXCEPT ![t] = "returned"]
                   /\ ret' = [ret EXCEPT ![t] = to_level(level)[1]]
                   /\ UNCHANGED poisoned
    /\ UNCHANGED <<platform, configuration, writer_priority, sinkVars, staticVars,
                   sockVars, buffer, new_socket, send_result, it, io, console, codecVars,
                   chunkVars>>

\* A log call is entered while no other call runs.
QuietLog(t) == Quiet(t) /\ LoggerLog(t)

InitFilter ==
    /\ platform = "other"
    /\ StaticsUninit /\ SinkIdle
    /\ configuration \in InitialConfigurations
    /\ writer_priority \in BOOLEAN
    /\ poisoned = FALSE
    /\ SocketConnected(TRUE)
    /\ ThreadsIdle
    /\ CodecIdle /\ ChunkIdle

NextFilter ==
    \E t \in Threads :
        \/ FilterCall(t)
        \/ ConfigWrite(t)
        \/ GetLevelFilter(t)
        \/ GetLevelFilterUnwrap(t)
        \/ QuietLog(t)
        \/ LogFilter(t)
        \/ LogPrependModule(t)
        \/ LogBinder(t)
        \/ LockPoisoned(t)
        \/ Resume(t)

SpecFilter == InitFilter /\ [][NextFilter]_vars

\* -------------------------------------------------- Builder::try_init, init
\* The level filters the builders of the application are given.
BuilderLevels == {"Warn", "Debug"}

\* log::set_boxed_logger: the logger is installed if none is, in one atomic
\* step; otherwise Err(SetLoggerError) and the installed one stays.
set_boxed_logger(installed, logger) ==
    IF installed = <<>> THEN [r |-> "Ok", LOGGER |-> <<logger>>]
    ELSE [r |-> "Err(SetLoggerError)", LOGGER |-> installed]

\* log::set_max_level called whatever set_boxed_logger returned.
sets_max_level_always(r) == TRUE

\* `if r.is_ok() { log::set_max_level(max_level); }`
sets_max_level(r) == r = "Ok"

\* init's `.expect(..)` on the result of try_init: where the call leaves.
init_expect(r) ==
    IF r = "Ok" THEN [pc |-> "returned", ret |-> "()"]
    ELSE [pc |-> "panicked", ret |-> "panic"]

\* try_init (called directly, or by init) up to set_boxed_logger: the logger
\* is built, its filter's level taken and the logger handed to the log crate.
TryInit(t) ==
    /\ pc[t] = "idle"
    /\ \E fn \in {"Builder::try_init", "Builder::init"}, max_level \in BuilderLevels :
         LET s == set_boxed_logger(LOGGER, [by |-> t, max_level |-> max_level])
         IN  /\ LOGGER' = s.LOGGER
             /\ Enter(t, [fn |-> fn, max_level |-> max_level, r |-> s.r], <<>>,
                      "set_max_level", <<>>, "none")
    /\ UNCHANGED <<platform, configVars, MAX_LOG_LEVEL_FILTER, staticVars, sockVars, it,
                   codecVars, chunkVars>>

\* The rest of try_init: the global max level, and r returned; init unwraps
\* it.
SetMaxLevel(t) ==
    /\ pc[t] = "set_max_level"
    /\ MAX_LOG_LEVEL_FILTER' =
         IF sets_max_level(op[t].r) THEN op[t].max_level ELSE MAX_LOG_LEVEL_FILTER
    /\ LET e == IF op[t].fn = "Builder::init" THEN init_expect(op[t].r)
                ELSE [pc |-> "returned", ret |-> op[t].r]
       IN  /\ pc' = [pc EXCEPT ![t] = e.pc]
           /\ ret' = [ret EXCEPT ![t] = e.ret]
    /\ UNCHANGED <<platform, configVars, LOGGER, staticVars, sockVars, op, buffer,
                   new_socket, send_result, it, io, console, codecVars, chunkVars>>

InitInit ==
    /\ platform \in {"android", "other"}
    /\ StaticsUninit /\ ConfigIdle /\ SinkIdle
    /\ SocketConnected(TRUE)
    /\ ThreadsIdle
    /\ CodecIdle /\ ChunkIdle

NextInit ==
    \E t \in Threads :
        \/ TryInit(t)
        \/ SetMaxLevel(t)
        \/ Resume(t)

SpecInit == InitInit /\ [][NextInit]_vars

\* ================================================================== claims
\* The remainder the k-th piece was cut from: the message without the k-1
\* pieces yielded before it.
RemainderBefore(k) ==
    SubSeq(msg, Len(Flatten(SubSeq(pieces, 1, k - 1))) + 1, Len(msg))

\* The byte indices (1-based) of the newlines among the first max bytes of r.
NewlinesWithin(r, max) == {i \in 1..max : i <= Len(r) /\ r[i] = 10}

\* The width of the UTF-8 sequence a lead byte starts.
Utf8Width(b) == IF b < 128 THEN 1 ELSE IF b < 224 THEN 2 ELSE IF b < 240 THEN 3 ELSE 4

RECURSIVE BoundariesFrom(_, _)
\* The character boundaries of s from the boundary i on, found by decoding s
\* forward one character at a time.
BoundariesFrom(s, i) ==
    IF i >= Len(s) THEN {i} ELSE {i} \cup BoundariesFrom(s, i + Utf8Width(s[i + 1]))
CharBoundaries(s) == BoundariesFrom(s, 0)

\* C5: the pieces yielded so far followed by the remainder are the message,
\* byte for byte, and once next() has returned None the pieces alone are the
\* message.
C5_ConcatReconstructs ==
    /\ Flatten(pieces) \o data = msg
    /\ (ncalls > 0 /\ item = <<>>) => Flatten(pieces) = msg
C5_Witness ==
    /\ ncalls > 0 /\ item = <<>> /\ Len(pieces) >= 3
    /\ \E k \in 1..Len(pieces) : pieces[k][Len(pieces[k])] = 10
    /\ \E i \in 1..Len(msg) : msg[i] >= 128

\* C6: every piece yielded is at most max_byte_length bytes long, and a
\* remainder shorter than max_byte_length is yielded whole, as the last piece.
C6_PieceWithinMax ==
    \A k \in 1..Len(pieces) :
        /\ Len(pieces[k]) <= max_byte_length
        /\ Len(RemainderBefore(k)) < max_byte_length =>
              /\ pieces[k] = RemainderBefore(k)
              /\ k = Len(pieces)
              /\ data = <<>>
C6_Witness ==
    msg = StrAbc /\ max_byte_length = 10 /\ pieces = <<StrAbc>> /\ data = <<>>

\* C7: every piece yielded is non-empty, next() returns None after at most
\* Len(msg) + 1 calls, and on the empty message the first call returns None.
C7_FiniteNonEmptyPieces ==
    /\ \A k \in 1..Len(pieces) : Len(pieces[k]) > 0
    /\ ncalls > Len(msg) => (item = <<>> /\ data = <<>>)
    /\ (msg = <<>> /\ ncalls > 0) => (item = <<>> /\ pieces = <<>>)

\* C8: a piece cut from a remainder of at least max_byte_length bytes with a
\* newline among its first max_byte_length bytes ends with the last such
\* newline, and the remainder continues right after it.
C8_SplitAfterLastNewline ==
    \A k \in 1..Len(pieces) :
        LET r == RemainderBefore(k)
            nl == NewlinesWithin(r, max_byte_length)
        IN  (Len(r) >= max_byte_length /\ nl # {}) =>
              /\ pieces[k] = SubSeq(r, 1, Max(nl))
              /\ pieces[k][Len(pieces[k])] = 10
              /\ k = Len(pieces) => data = SubSeq(r, Max(nl) + 1, Len(r))
C8_Witness ==
    /\ msg = StrLines /\ max_byte_length = 7
    /\ pieces = <<SubSeq(StrLines, 1, 6)>>
    /\ data = SubSeq(StrLines, 7, 17)

\* C9: a piece cut from a remainder of at least max_byte_length bytes with no
\* newline among its first max_byte_length bytes ends at the largest character
\* boundary that is at most max_byte_length, and every piece ends on a
\* character boundary of the message.
C9_SplitAtCharBoundary ==
    \A k \in 1..Len(pieces) :
        LET r == RemainderBefore(k)
        IN  /\ (Len(r) >= max_byte_length /\ NewlinesWithin(r, max_byte_length) = {}) =>
                  Len(pieces[k]) = Max({b \in CharBoundaries(r) : b <= max_byte_length})
            /\ Len(Flatten(SubSeq(pieces, 1, k))) \in CharBoundaries(msg)
C9_Witness ==
    /\ msg = StrWorld /\ max_byte_length = 7
    /\ Len(pieces) >= 1 /\ pieces[1] = SubSeq(StrWorld, 1, 6)

\* The size the documentation gives a value: Void 0, Int and Float 5, Long 9,
\* String 5 + its byte length, List 2 + the sizes of its elements' encodings.
DocumentedSize(v) ==
    CASE v.type = "Void" -> 0
      [] v.type \in {"Int", "Float"} -> 5
      [] v.type = "Long" -> 9
      [] v.type = "String" -> 5 + Len(v.string)
      [] v.type = "List" ->
            2 + SumSeq([i \in 1..Len(v.values) |-> Len(as_bytes(v.values[i]))])

\* C10: as_bytes returns as many bytes as serialized_size says, and that is
\* the documented size of the variant.
C10_EncodedLenIsSize ==
    (encoded # <<>> /\ size # <<>>) =>
        /\ Len(encoded[1]) = size[1]
        /\ size[1] = DocumentedSize(value)
C10_Witness ==
    /\ encoded # <<>> /\ size # <<>>
    /\ value \in EventLists3
    /\ \E i \in 1..Len(value.values[1].values) :
          value.values[1].values[i].type = "List"
             /\ Len(value.values[1].values[i].values) = MaxListLen


\* ------------------------------------------------------- LogdSocket::send
\* The transport calls send makes on its reconnect arm, in order.
ReconnectCalls == <<"send", "unbound", "connect", "set_nonblocking", "send">>
HardError(res) == res \notin {"Ok", "WouldBlock"}
SendDone(t) == pc[t] \in {"send_ret", "returned"}
FirstSendIs(t, P(_)) ==
    /\ op[t].fn = "LogdSocket::send"
    /\ Len(io[t]) >= 1
    /\ P(io[t][1].res)
IsWouldBlock(res) == res = "WouldBlock"

\* A thread whose first send came back WouldBlock made no other transport
\* call (no socket created, none connected, no second send), holds no new
\* socket, and its send yields Ok(()).
C2_State ==
    \A t \in Threads :
        FirstSendIs(t, IsWouldBlock) =>
            /\ Len(io[t]) = 1
            /\ new_socket[t] = 0
            /\ SendDone(t)
            /\ send_result[t] = "Ok"
            /\ pc[t] = "returned" => ret[t] = "Ok"

\* The step on which the first send comes back WouldBlock leaves the shared
\* handle and every descriptor as they were.
C2_Step ==
    \A t \in Threads :
        (pc[t] = "send_first" /\ FirstSendIs(t, IsWouldBlock)')
            => socket' = socket /\ fds' = fds

\* C2: when the send on the current socket fails with WouldBlock,
\* LogdSocket::send returns Ok(()), creates and connects no new socket,
\* leaves the shared socket handle unchanged and never sends the discarded
\* message again.
C2_WouldBlockDiscards == [](C2_State) /\ [][C2_Step]_vars

C2_Witness ==
    \E t \in Threads :
        /\ FirstSendIs(t, IsWouldBlock)
        /\ pc[t] = "returned"
        /\ ret[t] = "Ok"
        /\ io[t] = <<IoCall("send", socket, buffer[t], "WouldBlock")>>

\* The calls of a thread on the reconnect arm are a prefix of ReconnectCalls,
\* each made only after the one before it succeeded, the three reconnect
\* calls and the retry on one new descriptor, the retry with the buffer of
\* the first attempt; send is over exactly when a call after the first failed
\* or the retry was made, and its result is the result of that last call.
C3_State ==
    \A t \in Threads :
        FirstSendIs(t, HardError) =>
            LET n == Len(io[t]) IN
            /\ n <= Len(ReconnectCalls)
            /\ \A i \in 1..n : io[t][i].call = ReconnectCalls[i]
            /\ \A i \in 2..(n - 1) : io[t][i].res = "Ok"
            /\ \A i \in 2..n :
                 io[t][i].res = "Ok" =>
                    io[t][i].fd = io[t][2].fd /\ io[t][i].fd # io[t][1].fd
            /\ n = 5 => io[t][5].buf = io[t][1].buf
            /\ SendDone(t) <=> (n >= 2 /\ (n = 5 \/ io[t][n].res # "Ok"))
            /\ SendDone(t) => send_result[t] = io[t][n].res /\ new_socket[t] = 0
            /\ pc[t] = "returned" => ret[t] = send_result[t]

\* The retry's step: on success the shared handle becomes the new socket,
\* connected and non-blocking, and the old one is closed; on failure the
\* shared handle stays and the new socket is closed.
C3_Step ==
    \A t \in Threads :
        pc[t] = "send_retry" /\ pc'[t] = "send_ret" =>
            IF send_result'[t] = "Ok"
            THEN /\ socket' = new_socket[t]
                 /\ socket' # socket
                 /\ fds'[socket'] = [open |-> TRUE, connected |-> TRUE,
                                     nonblocking |-> TRUE]
                 /\ ~fds'[socket].open
            ELSE /\ socket' = socket
                 /\ fds'[socket] = fds[socket]
                 /\ ~fds'[new_socket[t]].open

\* C3: when the first send fails with an error other than WouldBlock,
\* LogdSocket::send makes exactly one reconnect (one socket created,
\* connected, set non-blocking) and one retry of the same buffer; a
\* successful retry returns Ok(()) with the new socket as the shared handle,
\* and a failure of the creation, connect, set_nonblocking or retry is
\* returned to the caller with no further attempt.
C3_OneReconnectOneRetry == [](C3_State) /\ [][C3_Step]_vars

C3_Witness ==
    \E t \in Threads :
        /\ FirstSendIs(t, HardError)
        /\ pc[t] = "returned"
        /\ Len(io[t]) = 5
        /\ ret[t] = "Ok"
        /\ socket = io[t][5].fd

\* ------------------------------------------------------------ event writers
EventWriters == EventApis \cup {"lib::write_event_buffer"}
InEventWriter(t) == op[t].fn \in EventWriters

\* C1: write_event_buffer, and write_event, write_event_now and
\* write_event_buffer_now through it, returns Err(Error::EventSize) exactly
\* when the value's serialized size exceeds 5120 - 15 = 5105 bytes, and has
\* then made no transport call and written nothing to the console; a value
\* of serialized size 5105 or less is accepted.
C1_SizeLimitError ==
    \A t \in Threads :
        InEventWriter(t) =>
            IF serialized_size(op[t].event.value) > 5120 - 15
            THEN /\ pc[t] = "returned"
                 /\ ret[t] = "Err(EventSize)"
                 /\ io[t] = <<>>
                 /\ console[t] = <<>>
            ELSE ret[t] # "Err(EventSize)"

C1_Witness ==
    \E t \in Threads :
        /\ InEventWriter(t)
        /\ serialized_size(op[t].event.value) = 5120 - 15 + 1
        /\ pc[t] = "returned"
        /\ ret[t] = "Err(EventSize)"

\* ------------------------------------------------- the severity logging path
FailedCalls(t) == {i \in 1..Len(io[t]) : io[t][i].res # "Ok"}
StderrLines(t) == {i \in 1..Len(console[t]) : console[t][i] = "stderr"}

\* C4: a transport failure on the severity logging path never reaches the
\* caller: once LogdSocket::send has returned an error to logd::log, the call
\* neither panics nor yields anything but (), after one line on stderr; and
\* once a write_all of pmsg has failed, log_pmsg_packet has returned to
\* pmsg::log's loop with one line on stderr per failure, and pmsg::log yields
\* ().
C4_TransportFailureContained ==
    \A t \in Threads :
        /\ (op[t].fn = "logd::log" /\ send_result[t] \notin {"none", "Ok"}) =>
              /\ pc[t] \in {"send_ret", "returned"}
              /\ pc[t] = "returned" => ret[t] = "()" /\ console[t] = <<"stderr">>
        /\ (op[t].fn = "pmsg::log" /\ FailedCalls(t) # {}) =>
              /\ pc[t] \in {"pmsg_next", "pmsg_write", "returned"}
              /\ Cardinality(StderrLines(t)) = Cardinality(FailedCalls(t))
              /\ ret[t] = IF pc[t] = "returned" THEN "()" ELSE "none"

C4_Witness ==
    \E t \in Threads :
        /\ op[t].fn = "logd::log"
        /\ send_result[t] = "ConnectionRefused"
        /\ Len(io[t]) = 5
        /\ pc[t] = "returned"
        /\ ret[t] = "()"
        /\ console[t] = <<"stderr">>

\* ------------------------------------------------------- the socket frames
\* The k bytes of n, least significant first.
RECURSIVE LittleEndian(_, _)
LittleEndian(n, k) ==
    IF k = 0 THEN <<>> ELSE <<n % 256>> \o LittleEndian(n \div 256, k - 1)

\* The eleven bytes the documented socket frames start with, for a buffer id
\* byte, the thread and a time not before the epoch (secs_lo is its seconds
\* truncated to 32 bits).
DocumentedHeader(id, t, time) ==
    <<id>> \o LittleEndian(thread_id(t) % 65536, 2) \o LittleEndian(time.secs_lo, 4)
        \o LittleEndian(time.nanos, 4)

\* The documented frame of a record.
DocumentedLogFrame(t, record) ==
    DocumentedHeader(buffer_u8(record.buffer_id), t, record.timestamp)
        \o <<record.priority>> \o record.tag \o <<0>> \o record.message \o <<0>>

LogCalls == {"logd::log", "lib::Logger::log"}
\* The call of thread t has handed a buffer to its socket's send.
HandedToSend(t) ==
    pc[t] \in {"send_lock", "send_first", "unbound", "upgrade", "connect",
               "set_nonblocking", "send_retry", "send_ret", "lib_send"}
        \/ io[t] # <<>>
\* The calls through which the socket's send was entered: with LogdSocket
\* the first attempt, with the plain socket every send.
SendsEntered(t) ==
    {i \in 1..Len(io[t]) : io[t][i].call = "send" /\ (i = 1 \/ io[t][i].fd = 0)}

\* C11: logd::log hands the socket one datagram per record, whatever the
\* message length: buffer id, thread id truncated to 16 bits, seconds
\* truncated to 32 bits, nanoseconds, priority, the tag, 0x00, the message,
\* 0x00, of 12 + len(tag) + 1 + len(message) + 1 bytes.
C11_OneDatagramPerRecord ==
    \A t \in Threads :
        (op[t].fn \in LogCalls /\ HandedToSend(t)) =>
            LET record == op[t].record IN
            /\ buffer[t] = DocumentedLogFrame(t, record)
            /\ Len(buffer[t]) = 12 + Len(record.tag) + 1 + Len(record.message) + 1
            /\ \A i \in 1..Len(io[t]) : io[t][i].call = "send" => io[t][i].buf = buffer[t]
            /\ Cardinality(SendsEntered(t)) <= 1
            /\ pc[t] = "returned" => Cardinality(SendsEntered(t)) = 1

C11_Witness ==
    \E t \in Threads :
        /\ op[t].fn = "logd::log"
        /\ pc[t] = "returned"
        /\ op[t].record.message = LongMessage
        /\ op[t].record.timestamp.secs_hi = 1
        /\ io[t] = <<IoCall("send", socket, DocumentedLogFrame(t, op[t].record), "Ok")>>

\* The documented frame of an event written to log_buffer.
DocumentedEventFrame(t, log_buffer, event) ==
    DocumentedHeader(buffer_u8(log_buffer), t, event.timestamp)
        \o LittleEndian(event.tag, 4) \o as_bytes(event.value)

\* C12: the datagram of every accepted event is the 15 byte header (buffer
\* id, thread id, ts_secs, ts_nanos, event tag) followed by value.as_bytes(),
\* with ts_secs and ts_nanos the seconds and nanoseconds of event.timestamp
\* from the Unix epoch; it has 15 + serialized_size(value) bytes, never more
\* than 5120.
C12_EventFrameLayout ==
    \A t \in Threads :
        (InEventWriter(t) /\ HandedToSend(t)) =>
            /\ buffer[t] = DocumentedEventFrame(t, op[t].log_buffer, op[t].event)
            /\ Len(buffer[t]) = 15 + serialized_size(op[t].event.value)
            /\ Len(buffer[t]) <= 5120

\* ------------------------------------------------- persistent store frames
\* The frames thread t's call has written to the pmsg device.
FramesWritten(t) == {i \in 1..Len(io[t]) : io[t][i].call = "write_all"}
\* The packet_len field of a frame: bytes 2 and 3, little endian.
PacketLenField(frame) == frame[2] + 256 * frame[3]

\* C13: the packet_len field of every persistent store frame is the number
\* of bytes written for the frame, 7 + 11 + (1 + len(tag) + 1 + len(chunk) +
\* 1), for every tag and chunk: the 16 bit computation never truncates or
\* wraps.
C13_PacketLenIsFrameLength ==
    \A t \in Threads :
        /\ \A i \in FramesWritten(t) :
             /\ PacketLenField(io[t][i].buf) = Len(io[t][i].buf)
             /\ Len(io[t][i].buf) >= 7 + 11 + (1 + Len(op[t].record.tag) + 1 + 1)
        /\ (op[t].fn = "pmsg::log" /\ pc[t] = "pmsg_write") =>
             PacketLenField(buffer[t]) = Len(buffer[t])

\* The send of thread t's event writer has failed for good: LogdSocket::send
\* returned an error (its reconnect arm failed), or the plain socket's send
\* did.
EventSendFailed(t) ==
    \/ send_result[t] \notin {"none", "Ok"}
    \/ \E i \in 1..Len(io[t]) : io[t][i].fd = 0 /\ io[t][i].res # "Ok"

\* C14: when the send of an event still fails after the reconnect and retry,
\* write_event_buffer and the functions built on it return Err(Error::Io),
\* not Ok(()).
C14_EventSendFailureIsIoError ==
    \A t \in Threads :
        (InEventWriter(t) /\ pc[t] = "returned" /\ EventSendFailed(t)) =>
            ret[t] = "Err(Io)"

\* ------------------------------------------------ timestamps before the epoch
\* The timestamp thread t's live-channel or pmsg call was given, if it is in
\* logd::log, logd::write_event (through an events.rs writer) or pmsg::log.
EpochCalls == {"logd::log", "pmsg::log"} \cup EventApis
TimestampOf(t) ==
    IF op[t].fn \in EventApis THEN op[t].event.timestamp ELSE op[t].record.timestamp

\* C15: a record or event whose timestamp lies before the Unix epoch is
\* dropped without a panic: logd::log, logd::write_event and the pmsg packet
\* writer return normally and send nothing for it.
C15_PreEpochDropped ==
    \A t \in Threads :
        (op[t].fn \in EpochCalls /\ TimestampOf(t).before_epoch) =>
            /\ pc[t] # "panicked"
            /\ \A i \in 1..Len(io[t]) : io[t][i].call \notin {"send", "write_all"}

\* ------------------------------------------------------- LoggerImpl::log
\* The call of thread t is a LoggerImpl::log on the daemon platform.
LoggerCall(t) == op[t].fn = "LoggerImpl::log" /\ platform = "android"
\* Its record was rejected by the filter; it passed the filter.
Rejected(t) == op[t].seen # <<>> /\ ~op[t].matches
Passed(t) == op[t].seen # <<>> /\ op[t].matches
\* The message part of a persistent store frame with the given tag.
MessagePart(frame, tag) ==
    SubSeq(frame, PMSG_HEADER_LEN + LOG_HEADER_LEN + 1 + Len(tag) + 1 + 1,
           Len(frame) - 1)
\* The message parts of the frames thread t's call has written, in order.
PstoreParts(t) ==
    LET frames == SelectSeq(io[t], LAMBDA c : c.call = "write_all")
    IN  [i \in 1..Len(frames) |-> MessagePart(frames[i].buf, op[t].tag)]
\* The send is entered at most once, and before every persistent store
\* write; a rejected record causes no send and no write.
SendOnceAndFirst(t) ==
    /\ Cardinality(SendsEntered(t)) <= 1
    /\ (FramesWritten(t) # {} \/ pc[t] \in {"log_pstore", "pmsg_next", "pmsg_write"}
          \/ (pc[t] = "returned" /\ Passed(t)))
         => SendsEntered(t) = {1}
    /\ \A i \in FramesWritten(t) : \A j \in 1..Len(io[t]) :
         io[t][j].call # "write_all" => j < i
    /\ Rejected(t) => io[t] = <<>> /\ pc[t] = "returned"

LiveHeader(t) == SubSeq(io[t][1].buf, 1, LOG_HEADER_LEN)
\* The log header of a persistent store frame: the 11 bytes after the pmsg
\* header.
PstoreHeader(frame) ==
    SubSeq(frame, PMSG_HEADER_LEN + 1, PMSG_HEADER_LEN + LOG_HEADER_LEN)

\* C17: the live frame and every persistent store frame of one log call
\* carry the same buffer id, thread id, ts_secs and ts_nanos, those of the
\* one clock read the call made for its record.
C17_SameHeaderOnBothChannels ==
    \A t \in Threads : (LoggerCall(t) /\ io[t] # <<>>) =>
        /\ io[t][1].call = "send"
        /\ LiveHeader(t) = DocumentedHeader(buffer_u8(op[t].record.buffer_id), t,
                                            op[t].record.timestamp)
        /\ \A i \in FramesWritten(t) : PstoreHeader(io[t][i].buf) = LiveHeader(t)

C17_Witness ==
    \E t \in Threads :
        /\ LoggerCall(t) /\ pc[t] = "returned"
        /\ \E i, j \in FramesWritten(t) :
             /\ i < j
             /\ PstoreHeader(io[t][i].buf) = LiveHeader(t)
             /\ PstoreHeader(io[t][j].buf) = LiveHeader(t)
             /\ op[t].record.timestamp.nanos = 123456789

\* The call of thread t has emitted its record: to the socket, or to stdout.
Emitted(t) ==
    /\ op[t].fn = "LoggerImpl::log"
    /\ io[t] # <<>> \/ console[t] # <<>>

\* C18: the filter decision, the prepend_module flag, the tag mode, the
\* buffer id and the pstore flag a log call uses all come from one version of
\* the configuration, under every interleaving with reconfiguration calls.
C18_OneConfigurationSnapshot ==
    \A t \in Threads : Emitted(t) =>
        \A i, j \in 1..Len(op[t].seen) : op[t].seen[i] = op[t].seen[j]

\* Thread a holds the read guard `binder` and waits in a second read() behind
\* thread b, which waits in write() for the guard of a to be dropped: neither
\* call can take another step.
WaitForEachOther(a, b) ==
    /\ BinderHeld(a) /\ pc[a] = "log_pstore" /\ ~CanRead
    /\ pc[b] = "cfg_write" /\ ~CanWrite

\* C19: every log call and every reconfiguration call gets the configuration
\* lock and returns, also where a log call takes the read lock again while
\* it holds an earlier read guard: no two calls ever wait for each other.
C19_NoCallWaitsForever ==
    \A a, b \in Threads : ~WaitForEachOther(a, b)

\* ------------------------------------------------------- the global sink
InitCalls == {"Builder::try_init", "Builder::init"}
\* Thread t takes the step that ends its try_init or init.
Leaves(t) == pc[t] = "set_max_level" /\ pc'[t] # pc[t]
\* A step the guard of the global sink allows.
GuardedStep ==
    /\ LOGGER # <<>> => LOGGER' = LOGGER
    /\ \A t \in Threads :
         /\ (pc[t] = "idle" /\ pc'[t] = "set_max_level" /\ LOGGER # <<>>) =>
              op'[t].r = "Err(SetLoggerError)"
         /\ (Leaves(t) /\ op[t].r # "Ok") =>
              /\ MAX_LOG_LEVEL_FILTER' = MAX_LOG_LEVEL_FILTER
              /\ IF op[t].fn = "Builder::try_init"
                 THEN pc'[t] = "returned" /\ ret'[t] = "Err(SetLoggerError)"
                 ELSE pc'[t] = "panicked"
         /\ (Leaves(t) /\ op[t].r = "Ok") =>
              /\ pc'[t] = "returned"
              /\ MAX_LOG_LEVEL_FILTER' = op[t].max_level
              /\ LOGGER = <<[by |-> t, max_level |-> op[t].max_level]>>

\* C20: once a logger is installed, every later try_init returns
\* Err(SetLoggerError) without a panic and leaves the installed logger and
\* the global max level as they are (set_max_level is called only by the
\* call that installed), and init panics in the same situation.
C20_GuardedInstall == [][GuardedStep]_vars

C20_Witness ==
    \E t, u \in Threads :
        /\ op[t].fn = "Builder::try_init" /\ pc[t] = "returned"
        /\ ret[t] = "Err(SetLoggerError)"
        /\ LOGGER # <<>> /\ LOGGER[1].by # t
        /\ MAX_LOG_LEVEL_FILTER = LOGGER[1].max_level
        /\ MAX_LOG_LEVEL_FILTER # op[t].max_level
        /\ op[u].fn = "Builder::init" /\ pc[u] = "panicked"

\* ------------------------------------------------------------ the tag
\* The positions of target at which a "::" begins.
Separators(target) ==
    {i \in 1..(Len(target) - 1) : target[i] = 58 /\ target[i + 1] = 58}
\* The tag the documentation gives a record with this target under a mode.
DocumentedTag(mode, target) ==
    IF mode.mode = "Target" THEN target
    ELSE IF mode.mode = "Custom" THEN mode.tag
    ELSE IF Separators(target) = {} THEN target
    ELSE LET first == CHOOSE i \in Separators(target) :
                        \A j \in Separators(target) : i <= j
         IN  SubSeq(target, 1, first - 1)

\* C21: the tag of a record is its target under Target, the part of the
\* target before the first "::" (the whole target without one) under
\* TargetStrip, and the custom string under Custom, whatever the target.
C21_TagFromTagMode ==
    \A t \in Threads : BinderHeld(t) =>
        op[t].tag = DocumentedTag(configuration.tag, op[t].input.target)

C21_Witness ==
    \E t \in Threads :
        /\ BinderHeld(t)
        /\ configuration.tag = TagTargetStrip
        /\ Cardinality(Separators(op[t].input.target)) = 2
        /\ op[t].tag = StrApp

\* ------------------------------------------------------- the filter calls
\* Records of a module other than `module`: those of target "lib", of every
\* level.
StrLib == <<108, 105, 98>>
OtherModuleRecords(module) ==
    {r \in [level : {"Error", "Warn", "Info", "Debug", "Trace"}, target : {StrLib}] :
       ~starts_with(r.target, module)}
\* Thread t takes the step in which its reconfiguration call writes.
Writes(t, call) ==
    /\ pc[t] = "cfg_write" /\ pc'[t] = "idle"
    /\ op[t].change.call = call

\* C22: set_module_and_level_filter(module, level) adds a directive: the
\* filter decision for the records of every other module is after the call
\* what it was before it.
C22_ModuleFilterKeepsOtherModules ==
    [][\A t \in Threads : Writes(t, "set_module_and_level_filter") =>
         \A r \in OtherModuleRecords(op[t].change.module) :
            filter_matches(configuration'.filter, r)
                = filter_matches(configuration.filter, r)]_vars

\* C23: after set_level_filter(L), get_level_filter() returns L for every
\* LevelFilter L from Off to Trace, without a panic, and leaves the
\* configuration and its lock as they were.
C23_GetLevelFilterReturnsLevel ==
    /\ ~poisoned
    /\ \A t \in Threads :
         (op[t].fn = "Logger::get_level_filter" /\ pc[t] # "cfg_get") =>
            \A l \in LevelFilters :
               op[t].filter = filter_level(l) => pc[t] = "returned" /\ ret[t] = l

\* ------------------------------------------------- the lock of the socket
\* Thread t is inside the first send on the shared socket; it is on the
\* reconnect path.
InFirstSend(t) == pc[t] = "send_first"
Reconnecting(t) == pc[t] \in {"unbound", "upgrade", "connect", "set_nonblocking", "send_retry"}

\* C24: senders are not serialized while the socket is healthy: a thread that
\* asks for the socket lock while the others that hold it are inside their
\* first send gets it and sends at the same time; the lock is exclusive only
\* during a reconnect.
C24_SendersNotSerialized ==
    /\ \A a \in Threads :
         (pc[a] = "send_lock" /\ \A b \in Threads : ~Reconnecting(b)) =>
            ENABLED SendLock(a)
    /\ lock.mode = "exclusive" => Reconnecting(lock.owner)

\* A socket fit to be installed: open, connected and non-blocking.
Initialized(fd) == fds[fd].open /\ fds[fd].connected /\ fds[fd].nonblocking
\* The socket created at start-up by LogdSocket::connect.
StartupSocket == 1
\* The last transport call of thread t in the next state.
LastCall(t) == io'[t][Len(io'[t])]
\* A step that replaces the shared socket is the last step of a reconnect
\* made under the exclusive lock, after a send on the new socket went well.
ReplacedUnderLock ==
    socket' # socket =>
        \E t \in Threads :
            /\ lock = [mode |-> "exclusive", owner |-> t]
            /\ pc[t] = "send_retry"
            /\ socket' = new_socket[t]
            /\ Initialized(new_socket[t])
            /\ LastCall(t) = IoCall("send", socket', buffer[t], "Ok")
\* A step that ends a send with an error leaves the shared socket in place.
FailedReconnectKeeps ==
    \A t \in Threads :
        (Reconnecting(t) /\ pc'[t] = "send_ret" /\ send_result'[t] # "Ok") =>
            socket' = socket /\ fds'[socket] = fds[socket]
\* A send goes to the shared socket, or to an initialized new one.
SendsOnWholeSocket ==
    \A t \in Threads :
        (Len(io'[t]) = Len(io[t]) + 1 /\ LastCall(t).call = "send") =>
            \/ LastCall(t).fd = socket /\ pc[t] = "send_first"
            \/ LastCall(t).fd = new_socket[t] /\ Initialized(new_socket[t])

\* C25: the shared socket is the one created at start-up or one that was
\* connected, set non-blocking and used for a successful send before it was
\* installed; it is replaced only under the exclusive lock, a failed
\* reconnect leaves it in place, and no send goes to a half-initialized
\* socket.
C25_SocketOldOrNew ==
    /\ [](fds[socket].open /\ (socket = StartupSocket \/ Initialized(socket)))
    /\ [][ReplacedUnderLock /\ FailedReconnectKeeps /\ SendsOnWholeSocket]_vars

C25_Witness ==
    \E t \in Threads :
        /\ socket # StartupSocket /\ Initialized(socket)
        /\ pc[t] = "send_first" /\ io[t] = <<>>
        /\ \E u \in Threads : pc[u] = "send_ret" /\ send_result[u] # "Ok" /\ Len(io[u]) > 2

\* -------------------------------------------- the frames of one message
\* The fourth field of a frame's log header: 4 bytes, little endian, after
\* the buffer id, the thread id and the seconds.
FourthField(frame) ==
    LET at == PMSG_HEADER_LEN + 1 + 2 + 4
    IN  frame[at + 1] + 256 * frame[at + 2] + 65536 * frame[at + 3]
            + 16777216 * frame[at + 4]
\* The frames thread t's call has written, in order.
Frames(t) == SelectSeq(io[t], LAMBDA c : c.call = "write_all")

\* C27 as stated: the fourth field of the log header increases by 1000 from
\* each chunk's frame to the next.
C27_FourthFieldIsSequence ==
    \A t \in Threads : \A i \in 1..(Len(Frames(t)) - 1) :
        FourthField(Frames(t)[i + 1].buf) = FourthField(Frames(t)[i].buf) + 1000

\* C27: in every frame of a message the fourth field of the log header is
\* the nanoseconds of the record's timestamp, the same in each chunk's frame;
\* the sequence number that grows by 1000 per chunk is not written.
C27_FourthFieldIsNanos ==
    \A t \in Threads : \A i \in 1..Len(Frames(t)) :
        FourthField(Frames(t)[i].buf) = op[t].record.timestamp.nanos

C27_Witness ==
    \E t \in Threads :
        /\ op[t].fn = "pmsg::log" /\ pc[t] = "returned"
        /\ Len(Frames(t)) = 2
        /\ FourthField(Frames(t)[1].buf) = 999999999
        /\ FourthField(Frames(t)[2].buf) = 999999999

\* The payload of a frame: what follows the pmsg header and the log header.
PayloadLen(frame) == Len(frame) - PMSG_HEADER_LEN - LOG_HEADER_LEN

\* C28: the payload of every frame written to the pmsg device (priority,
\* tag, 0x00, chunk, 0x00) is at most ANDROID_LOG_ENTRY_MAX_PAYLOAD bytes,
\* for every tag and message.
C28_PayloadWithinCeiling ==
    \A t \in Threads : \A i \in FramesWritten(t) :
        PayloadLen(io[t][i].buf) <= ANDROID_LOG_ENTRY_MAX_PAYLOAD

\* The chunk a pmsg frame of the record carries: what stands between the
\* tag's terminator and the frame's last byte.
FrameChunk(frame, record) ==
    SubSeq(frame, PMSG_HEADER_LEN + LOG_HEADER_LEN + 1 + Len(record.tag) + 1 + 1,
           Len(frame) - 1)

\* The chunks of the frames thread t has written, in the order written.
ChunksWritten(t) == [i \in 1..Len(io[t]) |-> FrameChunk(io[t][i].buf, op[t].record)]

InPmsgLog(t) == op[t].fn = "pmsg::log" /\ pc[t] \in {"pmsg_next", "pmsg_write", "returned"}

\* C26: pmsg::log writes at most 256 frames for a record; the frames carry
\* the message's chunks in message order, starting with the first and
\* leaving none out; and it returns, without an error, only when the message
\* is used up or 256 frames are written: a chunk is written exactly if its
\* index times 1000 is below 256000.
C26_AtMost256Frames ==
    \A t \in Threads :
        InPmsgLog(t) =>
            /\ FramesWritten(t) = 1..Len(io[t])
            /\ Len(io[t]) * ANDROID_LOG_PMSG_SEQUENCE_INCREMENT <= ANDROID_LOG_PMSG_MAX_SEQUENCE
            /\ Len(io[t]) = (IF pc[t] = "pmsg_write" THEN it[t].idx - 1 ELSE it[t].idx)
            /\ LET pending == IF pc[t] = "pmsg_write"
                              THEN FrameChunk(buffer[t], op[t].record) ELSE <<>>
               IN  Flatten(ChunksWritten(t)) \o pending \o it[t].data = op[t].record.message
            /\ \A i \in 1..Len(io[t]) :
                  LET chunk == FrameChunk(io[t][i].buf, op[t].record)
                  IN  Len(chunk) <= ANDROID_LOG_ENTRY_MAX_PAYLOAD /\ chunk # <<>>
            /\ pc[t] = "returned" =>
                  /\ ret[t] = "()"
                  /\ \/ it[t].data = <<>>
                     \/ Len(io[t]) * ANDROID_LOG_PMSG_SEQUENCE_INCREMENT
                            = ANDROID_LOG_PMSG_MAX_SEQUENCE

\* A call returned after 256 frames with a chunk of the message left over.
C26_Witness ==
    \E t \in Threads :
        /\ InPmsgLog(t) /\ pc[t] = "returned"
        /\ Len(io[t]) = 256
        /\ it[t].data # <<>>

\* The encoding of the event's value in a datagram of logd::write_event: what
\* follows the 11 bytes of the header and the 4 bytes of the event's tag.
ValueBytes(frame) == SubSeq(frame, 11 + 4 + 1, Len(frame))

\* The wire tag byte of a value's variant.
VariantTag(v) ==
    CASE v.type = "Int" -> 0
      [] v.type = "Long" -> 1
      [] v.type = "String" -> 2
      [] v.type = "List" -> 3
      [] v.type = "Float" -> 4

\* C29: in every datagram write_event_buffer sends for an event whose value
\* is a list, the value's encoding is the tag byte 3, one byte that is the
\* number of the list's elements (at most 255), and then the encodings of the
\* elements in list order, each starting with its variant's tag byte.
C29_ListCountIsLength ==
    \A t \in Threads :
        (op[t].fn \in EventApis /\ op[t].event.value.type = "List") =>
            \A i \in 1..Len(io[t]) :
                io[t][i].call = "send" =>
                    LET enc == ValueBytes(io[t][i].buf)
                        values == op[t].event.value.values
                    IN  /\ enc[1] = VariantTag(op[t].event.value)
                        /\ Len(values) <= 255
                        /\ enc[2] = Len(values)
                        /\ SubSeq(enc, 3, Len(enc))
                             = Flatten([j \in 1..Len(values) |-> as_bytes(values[j])])
                        /\ \A j \in 1..Len(values) :
                             as_bytes(values[j])[1] = VariantTag(values[j])

\* The positions of send at which the thread holds the guard.
GuardPcs == {"send_first", "unbound", "upgrade", "connect", "set_nonblocking", "send_retry"}

\* The lock is held exactly while some thread is inside send with its guard,
\* by that thread, and exclusively only from the upgrade to the exit.
LockHeldInsideSend ==
    /\ lock.mode = "free" => \A t \in Threads : pc[t] \notin GuardPcs
    /\ lock.mode # "free" =>
          /\ lock.owner \in Threads
          /\ pc[lock.owner] \in GuardPcs
          /\ \A t \in Threads \ {lock.owner} : pc[t] \notin GuardPcs
    /\ lock.mode = "exclusive" <=>
          \E t \in Threads : pc[t] \in {"connect", "set_nonblocking", "send_retry"}

\* C30: whatever the interleaving, a thread that has left send (by a
\* successful or discarded first send, a successful reconnect, or an error
\* of unbound, connect, set_nonblocking or the retry) holds the lock no
\* longer; and with the operating system's calls returning, every thread
\* that waits for the lock gets it and every call of send returns.
C30_SendReleasesLock ==
    /\ []LockHeldInsideSend
    /\ \A t \in Threads : (pc[t] = "send_lock") ~> (pc[t] = "send_first")
    /\ \A t \in Threads : (pc[t] = "send_lock") ~> (pc[t] = "send_ret")

\* A send has left on an error of the reconnect and the lock is free while
\* another thread waits for it.
C30_Witness ==
    \E t \in Threads, u \in Threads :
        /\ t # u
        /\ pc[t] = "send_ret" /\ send_result[t] # "Ok" /\ Len(io[t]) >= 3
        /\ lock = FreeLock
        /\ pc[u] = "send_lock"

====
